---------------------------- MODULE Spec2Model ----------------------------
(***************************************************************************)
(* The agent communication substrate of the research pipeline: the mock    *)
(* MessageBroker (utils/messaging.py), the BaseAgent runtime               *)
(* (agents/base_agent.py), the RPC helper (utils/messaging.py) and the     *)
(* Orchestrator pipeline (crew_ai/orchestrator.py).                        *)
(*                                                                         *)
(* Python dicts are functions with a finite domain of string keys, so      *)
(* `key in d` is `key \in DOMAIN d` and d.get(key, default) is Get.        *)
(* Every uuid4() is the next value of the counter uuid_count.              *)
(* f"agent_{id}" and f"response_{uuid}" are the pairs <<"agent_", id>>     *)
(* and <<"response_", uuid>>.                                              *)
(***************************************************************************)
EXTENDS Integers, Sequences, FiniteSets, TLC

VARIABLES
    mock_queues,       \* MessageBroker.mock_queues: queue name -> routing keys
    mock_messages,     \* MessageBroker.mock_messages: key -> list of message_data
    consumers,         \* the started _mock_consumer_thread threads: [queue, callback]
    message_handlers,  \* BaseAgent.message_handlers of each constructed agent
    handling,          \* per agent: the message_data its _process_message is running on
    last_outcome,      \* per agent: how its last dispatch ended (history)
    calls,             \* the send_message invocations, in the order they started
    rpc,               \* the RPC client object and its call in progress
    uuid_count,        \* number of uuid4() values drawn so far
    budget,            \* number of operations the clients may still start
    published,         \* the last publish_message call and how many there were (history)
    popped,            \* per queue: how many messages its consumer thread popped (history)
    orch,              \* the Orchestrator's activation (run_research_pipeline, stop)
    broker,            \* MessageBroker: use_mock, the connection, the close() calls
    stopped,           \* per agent: when stop() was first invoked on it (history)
    rpc_peer,          \* a second thread's RPC.call on the same RPC object
    arrived,           \* per queue: every message_data appended to it (history)
    delivered          \* per queue: the message_data its callback was called with (history)

vars == <<mock_queues, mock_messages, consumers, message_handlers, handling,
          last_outcome, calls, rpc, uuid_count, budget,
          published, popped, orch,
          broker, stopped, rpc_peer, arrived, delivered>>

\* the broker's connection and the agents' stop history
teardown == <<broker, stopped>>

\* the history of the recording consumers
recorded == <<arrived, delivered>>

\* the state most steps have no part in
others == <<teardown, rpc_peer, recorded>>

-----------------------------------------------------------------------------
(* Bounds of the model *)

\* number of operations the clients of the messaging layer perform
\* (send_message and RPC.call invocations, third-party publishes)
MaxCalls == 2

\* the same number in the runs checked for progress
MaxLiveCalls == 1

-----------------------------------------------------------------------------
(* Python values *)

None == [py_none |-> TRUE]

Get(d, key, default) == IF key \in DOMAIN d THEN d[key] ELSE default

AgentQueue(agent_id) == <<"agent_", agent_id>>

ResponseQueue(uuid) == <<"response_", uuid>>

RpcCallbackQueue(uuid) == <<"rpc_callback_", uuid>>

\* the record appended to a mock buffer (the timestamp is never read)
MessageData(message, correlation_id) ==
    [message |-> message, correlation_id |-> correlation_id]

-----------------------------------------------------------------------------
(* MessageBroker, mock strategy *)

\* create_queue: binds the queue and makes sure it has a buffer
CreateQueueBindings(mq, queue_name, routing_keys) ==
    IF queue_name \in DOMAIN mq
    THEN [mq EXCEPT ![queue_name] = routing_keys]
    ELSE mq @@ (queue_name :> routing_keys)

CreateQueueMessages(mm, queue_name) ==
    IF queue_name \in DOMAIN mm THEN mm ELSE mm @@ (queue_name :> <<>>)

\* the queues the "Deliver to any bound queues" loop appends to
BoundQueues(mq, routing_key) == {q \in DOMAIN mq : routing_key \in mq[q]}

\* number of copies of one published message a buffer receives: one for the
\* buffer named by the routing key, one more for each binding that matches
CopiesFor(mq, routing_key, name) ==
    (IF name = routing_key THEN 1 ELSE 0)
    + (IF name \in BoundQueues(mq, routing_key) THEN 1 ELSE 0)

Repeat(x, n) == [i \in 1..n |-> x]

\* a publish_message that inserts at the front of the buffers
PublishMessageFront(mm, mq, routing_key, message, correlation_id) ==
    LET md == MessageData(message, correlation_id)
        names == DOMAIN mm \cup {routing_key} \cup BoundQueues(mq, routing_key)
    IN  [name \in names |->
            Repeat(md, CopiesFor(mq, routing_key, name))
            \o (IF name \in DOMAIN mm THEN mm[name] ELSE <<>>)]

\* publish_message: the buffers after the call
PublishMessage(mm, mq, routing_key, message, correlation_id) ==
    LET md == MessageData(message, correlation_id)
        names == DOMAIN mm \cup {routing_key} \cup BoundQueues(mq, routing_key)
    IN  [name \in names |->
            (IF name \in DOMAIN mm THEN mm[name] ELSE <<>>)
            \o Repeat(md, CopiesFor(mq, routing_key, name))]

\* history of publish_message calls
LogPublish(log, routing_key, message, correlation_id) ==
    [count |-> log.count + 1, routing_key |-> routing_key,
     md |-> MessageData(message, correlation_id)]

\* history of pops by consumer threads
LogPop(log, queue_name) ==
    [q \in DOMAIN log \cup {queue_name} |->
        (IF q \in DOMAIN log THEN log[q] ELSE 0) + (IF q = queue_name THEN 1 ELSE 0)]

\* a callback of a consumer thread
AgentCallback(agent_id) == [kind |-> "_process_message", agent |-> agent_id]

ResponseCallback(c) == [kind |-> "response_handler", call |-> c]

Consumer(queue_name, callback) == [queue |-> queue_name, callback |-> callback]

\* a loop that leaves the last buffered message where it is
HasMessages(mm, queue_name) ==
    queue_name \in DOMAIN mm /\ Len(mm[queue_name]) > 1

\* `queue_name in self.mock_messages and self.mock_messages[queue_name]`
HasMessage(mm, queue_name) ==
    queue_name \in DOMAIN mm /\ Len(mm[queue_name]) > 0

\* MessageBroker.__init__ with the mock strategy: there is no connection
\* (closes counts the close() calls, error is the exception one of them
\* raised, "" when none did)
MockBroker == [use_mock |-> TRUE, connection |-> "none", closes |-> 0, error |-> ""]

\* MessageBroker.__init__ once _connect succeeded
ConnectedBroker == [use_mock |-> FALSE, connection |-> "open", closes |-> 0, error |-> ""]

\* a close() that closes the connection whatever its state: closing a
\* connection that is not open raises
CloseUnguarded(b) ==
    IF b.use_mock
    THEN [b EXCEPT !.closes = @ + 1]
    ELSE IF b.connection = "open"
         THEN [b EXCEPT !.connection = "closed", !.closes = @ + 1]
         ELSE [b EXCEPT !.closes = @ + 1, !.error = "ConnectionWrongStateError"]

\* MessageBroker.close: closes the connection if there is an open one
Close(b) ==
    IF ~b.use_mock /\ b.connection = "open"
    THEN [b EXCEPT !.connection = "closed", !.closes = @ + 1]
    ELSE [b EXCEPT !.closes = @ + 1]

-----------------------------------------------------------------------------
(* BaseAgent *)

\* stop() was never invoked on the agent
Never == -1

\* BaseAgent.stop: closes the message broker connection and nothing else;
\* `now` (the number of uuids drawn) is remembered the first time
Stop(a) ==
    /\ broker' = Close(broker)
    /\ stopped' = [stopped EXCEPT ![a] = IF @ = Never THEN uuid_count ELSE @]

\* the handlers _register_default_handlers registers
DefaultHandlers == {"ping", "stop"}

\* the handlers each agent class registers in its constructor
ClassHandlers(agent_id) ==
    CASE agent_id = "data_miner" -> {"mine_data", "scrape_url", "get_stats"}
      [] agent_id = "knowledge_graph" ->
            {"create_knowledge_graph", "extract_entities", "get_graph_stats",
             "transfer_data_to_temp_db", "semantic_search", "get_entity_context"}
      [] agent_id = "lite_rag" -> {"answer_query", "get_subgraph"}
      [] agent_id = "validator" -> {"validate_answer", "validate_report"}
      [] agent_id = "writer" -> {"generate_report", "generate_section"}
      [] OTHER -> {}

AgentType(agent_id) ==
    CASE agent_id = "data_miner" -> "DataMinerAgent"
      [] agent_id = "knowledge_graph" -> "KnowledgeGraphAgent"
      [] agent_id = "lite_rag" -> "LiteRAGAgent"
      [] agent_id = "validator" -> "ValidatorAgent"
      [] agent_id = "writer" -> "WriterAgent"
      [] OTHER -> "BaseAgent"

\* how a handler call ends
Return(value) == [kind |-> "return", value |-> value]

Raise(error) == [kind |-> "raise", error |-> error]

\* message.get("data", {})
Data(message) == Get(message, "data", <<>>)

\* message.get("data", {}).get(key) of a str argument; None and "" are both
\* falsy and both are "" here
StrArg(message, key) == Get(Data(message), key, "")

\* message.get("data", {}).get(key, []) of a list argument
ListArg(message, key) == Get(Data(message), key, <<>>)

\* BaseAgent._handle_ping
HandlePing(agent_id) ==
    {Return([status |-> "alive", agent_id |-> agent_id, agent_type |-> AgentType(agent_id)])}

\* BaseAgent._handle_stop: what it returns once self.stop() returned
HandleStop(agent_id) ==
    {Return([status |-> "stopped", agent_id |-> agent_id])}

\* DataMinerAgent._handle_mine_data; mine_data does network I/O and may raise
HandleMineData(message) ==
    IF StrArg(message, "query") = ""
    THEN {Return([status |-> "error", error |-> "Query is required"])}
    ELSE {Return([status |-> "success", results |-> [total_sources |-> 3]]),
          Raise("mine_data failed")}

\* KnowledgeGraphAgent._handle_create_knowledge_graph catches its own exceptions
HandleCreateKnowledgeGraph(message) ==
    {Return([status |-> "success", results |-> [content_nodes |-> 3, entity_nodes |-> 5]]),
     Return([status |-> "error", error |-> "graph store unavailable"])}

\* what the answerer answers to a query
AnswerTo(query) ==
    CASE query = "Q1" -> "A1"
      [] query = "Q2" -> "A2"
      [] OTHER -> "A"

\* LiteRAGAgent._handle_answer_query; answer_query queries the graph store and may raise
HandleAnswerQuery(message) ==
    IF StrArg(message, "query") = ""
    THEN {Return([status |-> "error", error |-> "Query is required"])}
    ELSE {Return([status |-> "success",
                  answer |-> AnswerTo(StrArg(message, "query")),
                  context |-> <<>>,
                  subgraph |-> [nodes |-> 0, relationships |-> 0]]),
          Raise("answer_query failed")}

\* ValidatorAgent._handle_validate_answer; validate_answer asks the LLM, which
\* may raise, and returns an assessment whose corrected_answer is the LLM's
\* or, when the LLM gave none, the answer it was asked about
HandleValidateAnswer(message) ==
    IF StrArg(message, "query") = "" \/ StrArg(message, "answer") = ""
    THEN {Return([status |-> "error", error |-> "Query and answer are required"])}
    ELSE {Return([status |-> "success",
                  validation_result |-> [is_valid |-> FALSE,
                                         corrected_answer |-> "corrected"]]),
          Return([status |-> "success",
                  validation_result |-> [is_valid |-> TRUE,
                                         corrected_answer |-> StrArg(message, "answer")]]),
          Raise("validate_answer failed")}

\* WriterAgent._handle_generate_report; generate_report runs LaTeX and may raise
HandleGenerateReport(message) ==
    IF ListArg(message, "queries") = <<>> \/ ListArg(message, "answers") = <<>>
    THEN {Return([status |-> "error", error |-> "Queries and answers are required"])}
    ELSE {Return([status |-> "success",
                  report_path |-> Get(Data(message), "output_path", "report.pdf")]),
          Raise("generate_report failed")}

\* the stub handlers of the end-to-end scenario: each returns its fixed result
StubHandler(message_type, message) ==
    CASE message_type = "mine_data" ->
            {Return([status |-> "success", total_sources |-> 3])}
      [] message_type = "create_knowledge_graph" ->
            {Return([status |-> "success", content_nodes |-> 3, entity_nodes |-> 5])}
      [] message_type = "answer_query" ->
            {Return([status |-> "success",
                     answer |-> AnswerTo(StrArg(message, "query")),
                     context |-> <<>>])}
      [] message_type = "validate_answer" ->
            {Return([status |-> "success",
                     validation_result |->
                        [is_valid |-> TRUE,
                         corrected_answer |-> AnswerTo(StrArg(message, "query"))]])}
      [] message_type = "generate_report" ->
            {Return([status |-> "success", report_path |-> "out/report.pdf"])}
      [] OTHER -> {Return([status |-> "success"])}

\* the handler each agent class registers for a type
ClassHandler(message_type) ==
    CASE message_type = "ping" -> "_handle_ping"
      [] message_type = "stop" -> "_handle_stop"
      [] message_type = "mine_data" -> "_handle_mine_data"
      [] message_type = "create_knowledge_graph" -> "_handle_create_knowledge_graph"
      [] message_type = "answer_query" -> "_handle_answer_query"
      [] message_type = "validate_answer" -> "_handle_validate_answer"
      [] message_type = "generate_report" -> "_handle_generate_report"
      [] OTHER -> "_handle_other"

\* self.message_handlers[message_type](message, correlation_id): the ways the
\* registered handler can end
HandlerOutcomes(handler, agent_id, message_type, message) ==
    CASE handler = "_handle_ping" -> HandlePing(agent_id)
      [] handler = "_handle_stop" -> HandleStop(agent_id)
      [] handler = "_handle_mine_data" -> HandleMineData(message)
      [] handler = "_handle_create_knowledge_graph" -> HandleCreateKnowledgeGraph(message)
      [] handler = "_handle_answer_query" -> HandleAnswerQuery(message)
      [] handler = "_handle_validate_answer" -> HandleValidateAnswer(message)
      [] handler = "_handle_generate_report" -> HandleGenerateReport(message)
      [] handler = "stub" -> StubHandler(message_type, message)
      [] OTHER -> {Return([status |-> "success"]), Raise("handler failed")}

\* BaseAgent.__init__ and the subclass constructor: the registry once the
\* agent is constructed
RegisteredHandlers(agent_id) ==
    [t \in DefaultHandlers \cup ClassHandlers(agent_id) |-> ClassHandler(t)]

\* register_handler
RegisterHandler(handlers, message_type, handler) ==
    [t \in DOMAIN handlers \cup {message_type} |->
        IF t = message_type THEN handler ELSE handlers[t]]

\* f"{message_type}_response"
ResponseType(message_type) ==
    CASE message_type = "ping" -> "ping_response"
      [] message_type = "stop" -> "stop_response"
      [] message_type = "mine_data" -> "mine_data_response"
      [] message_type = "create_knowledge_graph" -> "create_knowledge_graph_response"
      [] message_type = "answer_query" -> "answer_query_response"
      [] message_type = "validate_answer" -> "validate_answer_response"
      [] message_type = "generate_report" -> "generate_report_response"
      [] OTHER -> "_response"

\* the response _process_message builds when the handler returned
SuccessResponse(agent_id, message_type, response) ==
    [type |-> ResponseType(message_type),
     status |-> "success",
     data |-> response,
     agent_id |-> agent_id]

\* the response _process_message builds when the handler raised
ErrorResponse(agent_id, message_type, error) ==
    [type |-> ResponseType(message_type),
     status |-> "error",
     error |-> error,
     agent_id |-> agent_id]

\* a dispatch that answers only when the handler returned
ResponsesOfReturnsOnly(agent_id, message, outcome) ==
    IF "reply_to" \in DOMAIN message /\ outcome.kind = "return"
    THEN <<[to |-> message["reply_to"],
            message |-> SuccessResponse(agent_id, message["type"], outcome.value)]>>
    ELSE <<>>

\* the publishes of one _process_message call, as <<routing key, message>>
\* pairs: none without reply_to, else the response to reply_to
Responses(agent_id, message, outcome) ==
    IF "reply_to" \notin DOMAIN message
    THEN <<>>
    ELSE IF outcome.kind = "return"
         THEN <<[to |-> message["reply_to"],
                 message |-> SuccessResponse(agent_id, message["type"], outcome.value)]>>
         ELSE <<[to |-> message["reply_to"],
                 message |-> ErrorResponse(agent_id, message["type"], outcome.error)]>>

\* history of one _process_message call: the message_data it was called
\* with, how the handler ended ("unknown" when none is registered), and the
\* publish_message calls it made, in order
Dispatched(md, kind, sent) == [md |-> md, kind |-> kind, sent |-> sent]

\* the publish_message calls for the responses `out`, made with
\* correlation_id: none raised, each reached the buffer of its key and of
\* the queues bound to it
Sent(out, correlation_id, mq) ==
    [i \in DOMAIN out |->
        [to |-> out[i].to, message |-> out[i].message, correlation_id |-> correlation_id,
         raised |-> FALSE, reached |-> {out[i].to} \cup BoundQueues(mq, out[i].to)]]

\* _mock_consumer_thread of an agent's queue: one pass of the loop that finds
\* a message pops the first one and calls _process_message with it
AgentDequeue(a) ==
    /\ Consumer(AgentQueue(a), AgentCallback(a)) \in consumers
    /\ handling[a] = None
    /\ HasMessage(mock_messages, AgentQueue(a))
    /\ handling' = [handling EXCEPT ![a] = Head(mock_messages[AgentQueue(a)])]
    /\ mock_messages' = [mock_messages EXCEPT ![AgentQueue(a)] = Tail(@)]
    /\ popped' = LogPop(popped, AgentQueue(a))
    /\ UNCHANGED <<mock_queues, consumers, message_handlers, last_outcome, calls,
                   rpc, uuid_count, budget, published, orch,
                   others>>

\* the handler the message is dispatched to is _handle_stop, which calls
\* self.stop() before it returns
CallsStop(handlers, message) ==
    /\ Get(message, "type", "") \in DOMAIN handlers
    /\ handlers[Get(message, "type", "")] = "_handle_stop"

\* an agent that answers a type it has no handler for with an error response
UnknownTypeAnswered(agent_id, message) ==
    IF "reply_to" \in DOMAIN message
    THEN <<[to |-> message["reply_to"],
            message |-> ErrorResponse(agent_id, Get(message, "type", ""),
                                      "Unknown message type")]>>
    ELSE <<>>

\* the publishes of a _process_message call for a type without a handler:
\* the else branch only prints
UnknownTypeResponses(agent_id, message) == <<>>

\* _process_message: the handler registered for the type runs and ends, and
\* the response, if any, is published; an unknown type is only logged; while
\* the agent has no message_handlers attribute yet the lookup raises
\* AttributeError, which the consumer thread catches and prints
ProcessMessage(a) ==
    /\ handling[a] # None
    /\ LET md == handling[a]
           message == md.message
           message_type == Get(message, "type", "")
           Publishes(kind, out) ==
               /\ IF out = <<>>
                  THEN UNCHANGED <<mock_messages, published>>
                  ELSE /\ mock_messages' =
                             PublishMessage(mock_messages, mock_queues, out[1].to,
                                            out[1].message, md.correlation_id)
                       /\ published' = LogPublish(published, out[1].to,
                                                  out[1].message, md.correlation_id)
               /\ last_outcome' = [last_outcome EXCEPT ![a] =
                                      Dispatched(md, kind,
                                                 Sent(out, md.correlation_id, mock_queues))]
       IN  IF message_handlers[a] = None
           THEN Publishes("AttributeError", <<>>)
           ELSE
           IF message_type \in DOMAIN message_handlers[a]
           THEN \E outcome \in HandlerOutcomes(message_handlers[a][message_type],
                                               a, message_type, message) :
                   Publishes(outcome.kind, Responses(a, message, outcome))
           ELSE Publishes("unknown", UnknownTypeResponses(a, message))
    /\ IF CallsStop(message_handlers[a], handling[a].message)
       THEN Stop(a)
       ELSE UNCHANGED teardown
    /\ handling' = [handling EXCEPT ![a] = None]
    /\ UNCHANGED <<mock_queues, consumers, message_handlers, calls, rpc,
                   uuid_count, budget, popped, orch, rpc_peer, recorded>>

-----------------------------------------------------------------------------
(* BaseAgent.send_message *)

\* the request send_message builds
Request(caller, message_type, data) ==
    [type |-> message_type, data |-> data, agent_id |-> caller]

\* message["reply_to"] = reply_to
WithReplyTo(message, reply_to) ==
    [k \in DOMAIN message \cup {"reply_to"} |->
        IF k = "reply_to" THEN reply_to ELSE message[k]]

\* what send_message returns when response_event.wait(timeout) is False
TimeoutResult == [status |-> "error", error |-> "Timeout waiting for response"]

\* send_message(..., wait_for_response=True) up to response_event.wait: the
\* temporary queue, its consumer thread and the published request
SendAndWait(caller, target, message_type, data, timeout) ==
    LET c == Len(calls) + 1
        temp_queue == ResponseQueue(uuid_count + 1)
        correlation_id == uuid_count + 2
        message == WithReplyTo(Request(caller, message_type, data), temp_queue)
        mq == CreateQueueBindings(mock_queues, temp_queue, {temp_queue})
    IN  /\ mock_queues' = mq
        /\ consumers' = consumers \cup {Consumer(temp_queue, ResponseCallback(c))}
        /\ mock_messages' = PublishMessage(CreateQueueMessages(mock_messages, temp_queue),
                                           mq, AgentQueue(target), message, correlation_id)
        /\ published' = LogPublish(published, AgentQueue(target), message, correlation_id)
        /\ uuid_count' = uuid_count + 2
        /\ calls' = Append(calls,
                [caller |-> caller, target |-> target, type |-> message_type,
                 data |-> data,
                 wait |-> TRUE, temp_queue |-> temp_queue,
                 correlation_id |-> correlation_id,
                 timeout |-> timeout, elapsed |-> 0,
                 response_data |-> None, response_cid |-> 0, event |-> FALSE,
                 pc |-> "waiting", result |-> None, result_cid |-> 0])

\* send_message(..., wait_for_response=False)
SendNoWait(caller, target, message_type, data) ==
    LET correlation_id == uuid_count + 1
        message == Request(caller, message_type, data)
    IN  /\ mock_messages' = PublishMessage(mock_messages, mock_queues,
                                           AgentQueue(target), message, correlation_id)
        /\ published' = LogPublish(published, AgentQueue(target), message, correlation_id)
        /\ uuid_count' = uuid_count + 1
        /\ calls' = Append(calls,
                [caller |-> caller, target |-> target, type |-> message_type,
                 data |-> data,
                 wait |-> FALSE, temp_queue |-> <<>>,
                 correlation_id |-> correlation_id,
                 timeout |-> 0, elapsed |-> 0,
                 response_data |-> None, response_cid |-> 0, event |-> FALSE,
                 pc |-> "returned", result |-> None, result_cid |-> 0])
        /\ UNCHANGED <<mock_queues, consumers>>

\* response_handler: whether it takes a message that arrived on the
\* temporary queue (it never looks at resp_correlation_id)
ResponseHandlerTakes(call, md) == TRUE

\* _mock_consumer_thread of a temporary queue: pops the first message and
\* calls response_handler, which stores it and sets the event
ResponseDequeue(c) ==
    /\ c \in DOMAIN calls
    /\ calls[c].wait
    /\ Consumer(calls[c].temp_queue, ResponseCallback(c)) \in consumers
    /\ HasMessage(mock_messages, calls[c].temp_queue)
    /\ LET md == Head(mock_messages[calls[c].temp_queue])
       IN  /\ mock_messages' = [mock_messages EXCEPT ![calls[c].temp_queue] = Tail(@)]
           /\ popped' = LogPop(popped, calls[c].temp_queue)
           /\ calls' = IF ResponseHandlerTakes(calls[c], md)
                       THEN [calls EXCEPT ![c].response_data = md.message,
                                          ![c].response_cid = md.correlation_id,
                                          ![c].event = TRUE]
                       ELSE calls
    /\ UNCHANGED <<mock_queues, consumers, message_handlers, handling, last_outcome,
                   rpc, uuid_count, budget, published, orch,
                   others>>

\* a wait that gives up one second early
WaitTimedOutEarly(timeout, elapsed) == elapsed >= timeout - 1

\* response_event.wait(timeout) runs out once `elapsed` seconds have passed
WaitTimedOut(timeout, elapsed) == elapsed >= timeout

\* response_event.wait(timeout) returns True: the caller gets response_data[0]
CallReturned(c) ==
    [calls EXCEPT ![c].pc = "returned",
                  ![c].result = calls[c].response_data,
                  ![c].result_cid = calls[c].response_cid]

\* response_event.wait(timeout) returns False: the caller gets the timeout error
CallTimedOut(c) ==
    [calls EXCEPT ![c].pc = "returned",
                  ![c].result = TimeoutResult,
                  ![c].result_cid = 0]

CanReturn(c) == c \in DOMAIN calls /\ calls[c].pc = "waiting" /\ calls[c].event

CanTimeOut(c) ==
    /\ c \in DOMAIN calls
    /\ calls[c].pc = "waiting"
    /\ ~calls[c].event
    /\ WaitTimedOut(calls[c].timeout, calls[c].elapsed)

\* the responses the target's _process_message can publish for a request
Replies(target, message) ==
    IF target \in DOMAIN message_handlers
       /\ message["type"] \in DOMAIN message_handlers[target]
    THEN UNION {{r.message : r \in {Responses(target, message, outcome)[i] :
                                      i \in DOMAIN Responses(target, message, outcome)}} :
                outcome \in HandlerOutcomes(message_handlers[target][message["type"]],
                                            target, message["type"], message)}
    ELSE {}

\* the values send_message(..., wait_for_response=True) can return when only
\* the target publishes to the temporary queue: one of the target's
\* responses, or the timeout error
SendMessageReturns(target, message) ==
    Replies(target, message) \cup {TimeoutResult}

\* a whole send_message(..., wait_for_response=True) that returns `result`,
\* taken as one step with the dispatch of its request: the temporary queue
\* and its consumer thread stay behind, the buffers are drained
SendMessage(caller, target, message_type, data, timeout, result) ==
    LET temp_queue == ResponseQueue(uuid_count + 1)
        correlation_id == uuid_count + 2
        message == WithReplyTo(Request(caller, message_type, data), temp_queue)
        timed_out == result = TimeoutResult
    IN  /\ result \in SendMessageReturns(target, message)
        /\ mock_queues' = CreateQueueBindings(mock_queues, temp_queue, {temp_queue})
        /\ consumers' = consumers
                \cup {Consumer(temp_queue, ResponseCallback(Len(calls) + 1))}
        /\ mock_messages' = CreateQueueMessages(mock_messages, temp_queue)
        /\ published' = LogPublish(published, AgentQueue(target), message, correlation_id)
        /\ uuid_count' = uuid_count + 2
        /\ calls' = Append(calls,
                [caller |-> caller, target |-> target, type |-> message_type,
                 data |-> data,
                 wait |-> TRUE, temp_queue |-> temp_queue,
                 correlation_id |-> correlation_id,
                 timeout |-> timeout, elapsed |-> IF timed_out THEN timeout ELSE 0,
                 response_data |-> IF timed_out THEN None ELSE result,
                 response_cid |-> IF timed_out THEN 0 ELSE correlation_id,
                 event |-> ~timed_out,
                 pc |-> "returned", result |-> result,
                 result_cid |-> IF timed_out THEN 0 ELSE correlation_id])

-----------------------------------------------------------------------------
(* RPC *)

\* a scan that takes the first buffered message, whatever its correlation_id
FirstBuffered(buffer, correlation_id) == IF Len(buffer) > 0 THEN 1 ELSE 0

\* position of the first buffered message whose correlation_id is the
\* call's, 0 when there is none (the for loop of RPC.call)
FirstMatch(buffer, correlation_id) ==
    IF \E i \in DOMAIN buffer : buffer[i].correlation_id = correlation_id
    THEN CHOOSE i \in DOMAIN buffer :
            /\ buffer[i].correlation_id = correlation_id
            /\ \A j \in 1..(i - 1) : buffer[j].correlation_id # correlation_id
    ELSE 0

\* a removal that takes the first entry of the list, whatever i is
PopHead(buffer, i) == Tail(buffer)

\* list.pop(i)
Pop(buffer, i) ==
    [j \in 1..(Len(buffer) - 1) |-> IF j < i THEN buffer[j] ELSE buffer[j + 1]]

\* `time.time() - start_time > timeout` of RPC.call, with elapsed for
\* time.time() - start_time
RpcTimedOut(timeout, elapsed) == elapsed > timeout

\* RPC.__init__ and RPC.initialize on the mock broker (timed_out is the
\* history of the correlation ids of the calls that raised TimeoutError)
RpcInitial(uuid) ==
    [callback_queue |-> RpcCallbackQueue(uuid), response |-> None, response_cid |-> 0,
     correlation_id |-> 0, pc |-> "idle", elapsed |-> 0, timeout |-> 0,
     count |-> 0, outcome |-> "none", result |-> None, result_cid |-> 0,
     routing_key |-> <<>>, type |-> "", own_cid |-> 0, timed_out |-> {}]

\* RPC.call up to its wait loop
RpcCall(routing_key, message, timeout) ==
    LET correlation_id == uuid_count + 1
        request == WithReplyTo(message, rpc.callback_queue)
    IN  /\ rpc.pc = "idle"
        /\ rpc' = [rpc EXCEPT !.response = None, !.response_cid = 0,
                              !.correlation_id = correlation_id,
                              !.pc = "waiting", !.elapsed = 0, !.timeout = timeout,
                              !.count = @ + 1, !.outcome = "none",
                              !.result = None, !.result_cid = 0,
                              !.routing_key = routing_key,
                              !.type = Get(message, "type", ""),
                              !.own_cid = correlation_id]
        /\ uuid_count' = uuid_count + 1
        /\ mock_messages' = PublishMessage(mock_messages, mock_queues, routing_key,
                                           request, correlation_id)
        /\ published' = LogPublish(published, routing_key, request, correlation_id)

\* one pass of `while self.response is None` of RPC.call by a thread whose
\* locals are `call`, on the RPC object `object` (response, correlation_id):
\* with a response stored the loop ends and the call returns it; else the
\* callback queue is scanned for object.correlation_id, then TimeoutError is
\* raised if the time is up, else the call returns once a response is stored
RpcPass(call, object, buffer) ==
    LET i == FirstMatch(buffer, object.correlation_id)
        response == IF i > 0 THEN buffer[i].message ELSE object.response
        response_cid == IF i > 0 THEN buffer[i].correlation_id ELSE object.response_cid
    IN  IF object.response # None
        THEN [buffer |-> buffer, response |-> object.response,
              response_cid |-> object.response_cid,
              pc |-> "idle", outcome |-> "return",
              result |-> object.response, result_cid |-> object.response_cid]
        ELSE [buffer |-> IF i > 0 THEN Pop(buffer, i) ELSE buffer,
              response |-> response, response_cid |-> response_cid,
              pc |-> IF RpcTimedOut(call.timeout, call.elapsed) \/ response # None
                     THEN "idle" ELSE "waiting",
              outcome |-> IF RpcTimedOut(call.timeout, call.elapsed) THEN "TimeoutError"
                          ELSE IF response # None THEN "return" ELSE "none",
              result |-> IF ~RpcTimedOut(call.timeout, call.elapsed) /\ response # None
                         THEN response ELSE call.result,
              result_cid |-> IF ~RpcTimedOut(call.timeout, call.elapsed) /\ response # None
                             THEN response_cid ELSE call.result_cid]

\* the buffer of the callback queue of the RPC object
CallbackBuffer ==
    IF rpc.callback_queue \in DOMAIN mock_messages
    THEN mock_messages[rpc.callback_queue] ELSE <<>>

\* one pass of the wait loop of the RPC.call in progress
RpcPoll ==
    /\ rpc.pc = "waiting"
    /\ LET pass == RpcPass(rpc, rpc, CallbackBuffer)
       IN  /\ mock_messages' = IF pass.buffer # CallbackBuffer
                               THEN [mock_messages EXCEPT ![rpc.callback_queue] = pass.buffer]
                               ELSE mock_messages
           /\ rpc' = [rpc EXCEPT !.response = pass.response,
                                 !.response_cid = pass.response_cid,
                                 !.pc = pass.pc, !.outcome = pass.outcome,
                                 !.result = pass.result, !.result_cid = pass.result_cid,
                                 !.timed_out = IF pass.outcome = "TimeoutError"
                                               THEN @ \cup {rpc.own_cid} ELSE @]
    /\ UNCHANGED <<mock_queues, consumers, message_handlers, handling, last_outcome,
                   calls, uuid_count, budget, published, popped, orch,
                   others>>

-----------------------------------------------------------------------------
(* Time *)

\* the second thread is inside RPC.call
PeerWaiting == rpc_peer # None /\ rpc_peer.pc = "waiting"

\* the blocked callers
Waiting == {c \in DOMAIN calls : calls[c].pc = "waiting"}

\* the waits in progress, each with its test for having run out
Waits ==
    {[timeout |-> calls[c].timeout, elapsed |-> calls[c].elapsed, by |-> "Event.wait"] :
        c \in Waiting}
    \cup (IF rpc.pc = "waiting"
          THEN {[timeout |-> rpc.timeout, elapsed |-> rpc.elapsed, by |-> "RPC.call"]}
          ELSE {})
    \cup (IF PeerWaiting
          THEN {[timeout |-> rpc_peer.timeout, elapsed |-> rpc_peer.elapsed,
                 by |-> "RPC.call"]}
          ELSE {})

RunsOut(w, elapsed) ==
    IF w.by = "Event.wait"
    THEN WaitTimedOut(w.timeout, elapsed)
    ELSE RpcTimedOut(w.timeout, elapsed)

\* the spans of time after which a wait in progress that has not run out has
\* run out (only the instants around the timeout can be the first such)
Deadlines ==
    {d \in {w.timeout - w.elapsed + k : w \in Waits, k \in {-1, 0, 1}} :
        /\ d > 0
        /\ \E w \in Waits : ~RunsOut(w, w.elapsed) /\ RunsOut(w, w.elapsed + d)}

\* time passes while a caller is blocked, up to the next instant at which a
\* wait runs out; every blocked caller's clock advances by the same amount
Tick ==
    /\ \E dt \in Deadlines :
          /\ \A d \in Deadlines : dt <= d
          /\ calls' = [c \in DOMAIN calls |->
                          IF c \in Waiting
                          THEN [calls[c] EXCEPT !.elapsed = @ + dt]
                          ELSE calls[c]]
          /\ rpc' = IF rpc.pc = "waiting" THEN [rpc EXCEPT !.elapsed = @ + dt] ELSE rpc
          /\ rpc_peer' = IF PeerWaiting
                          THEN [rpc_peer EXCEPT !.elapsed = @ + dt]
                          ELSE rpc_peer
    /\ UNCHANGED <<mock_queues, mock_messages, consumers, message_handlers, handling,
                   last_outcome, uuid_count, budget, published, popped, orch,
                   teardown, recorded>>

-----------------------------------------------------------------------------
(* The clients of the messaging layer *)

\* default of the timeout parameter of send_message and RPC.call, in seconds
DefaultTimeout == 30

\* the agents constructed on the shared broker
Agents == {"data_miner", "lite_rag"}

\* the requests the client makes with send_message(wait_for_response=True):
\* a registered type, an unregistered type, an agent that does not exist
SendInputs ==
    {[target |-> "data_miner", type |-> "mine_data", data |-> [query |-> "q"]],
     [target |-> "data_miner", type |-> "bogus", data |-> [query |-> "q"]],
     [target |-> "ghost", type |-> "ping", data |-> [query |-> "q"]]}

\* the requests the client makes with send_message(wait_for_response=False)
CastInputs ==
    {[target |-> "data_miner", type |-> "mine_data", data |-> [query |-> "q"]]}

\* the requests the client makes with RPC.call
RpcInputs ==
    {[target |-> "data_miner", type |-> "mine_data", data |-> [query |-> "q"]],
     [target |-> "data_miner", type |-> "bogus", data |-> [query |-> "q"]]}

\* the client thread is not inside a blocking call
ClientIdle ==
    /\ rpc.pc = "idle"
    /\ \A c \in DOMAIN calls : calls[c].pc # "waiting"

\* the client calls send_message(target, type, data, wait_for_response=True)
ClientSend ==
    /\ ClientIdle
    /\ budget > 0
    /\ budget' = budget - 1
    /\ \E in \in SendInputs :
          SendAndWait("lite_rag", in.target, in.type, in.data, DefaultTimeout)
    /\ UNCHANGED <<message_handlers, handling, last_outcome, rpc,
                   popped, orch,
                   others>>

\* the client calls send_message(target, type, data)
ClientCast ==
    /\ ClientIdle
    /\ budget > 0
    /\ budget' = budget - 1
    /\ \E in \in CastInputs :
          SendNoWait("lite_rag", in.target, in.type, in.data)
    /\ UNCHANGED <<message_handlers, handling, last_outcome, rpc,
                   popped, orch,
                   others>>

\* the blocked send_message returns the stored response
ClientReturn(c) ==
    /\ CanReturn(c)
    /\ calls' = CallReturned(c)
    /\ UNCHANGED <<mock_queues, mock_messages, consumers, message_handlers, handling,
                   last_outcome, rpc, uuid_count, budget,
                   published, popped, orch,
                   others>>

\* the blocked send_message returns the timeout error
ClientTimeout(c) ==
    /\ CanTimeOut(c)
    /\ calls' = CallTimedOut(c)
    /\ UNCHANGED <<mock_queues, mock_messages, consumers, message_handlers, handling,
                   last_outcome, rpc, uuid_count, budget,
                   published, popped, orch,
                   others>>

\* the client calls RPC.call(routing_key, message)
ClientRpcCall ==
    /\ ClientIdle
    /\ budget > 0
    /\ budget' = budget - 1
    /\ \E in \in RpcInputs :
          RpcCall(AgentQueue(in.target), Request("client", in.type, in.data), DefaultTimeout)
    /\ UNCHANGED <<mock_queues, consumers, message_handlers, handling, last_outcome,
                   calls, popped, orch,
                   others>>

\* the reply queues in use
ReplyQueues ==
    {calls[c].temp_queue : c \in {x \in DOMAIN calls : calls[x].wait}}
    \cup {rpc.callback_queue}

\* the message a third party publishes
StrayMessage == [type |-> "stray", status |-> "success", data |-> [status |-> "stray"],
                 agent_id |-> "third_party"]

\* a third party publishes to a reply queue under a correlation id of its own
StrayPublish ==
    /\ budget > 0
    /\ budget' = budget - 1
    /\ \E q \in ReplyQueues :
          /\ mock_messages' = PublishMessage(mock_messages, mock_queues, q,
                                             StrayMessage, uuid_count + 1)
          /\ published' = LogPublish(published, q, StrayMessage, uuid_count + 1)
    /\ uuid_count' = uuid_count + 1
    /\ UNCHANGED <<mock_queues, consumers, message_handlers, handling, last_outcome,
                   calls, rpc, popped, orch,
                   others>>

\* the registries of the agents `ids` as their constructors leave them
ClassRegistry(ids) == [a \in ids |-> RegisteredHandlers(a)]

\* the state once the agents `ids` are constructed on one mock broker
\* (BaseAgent.__init__) and the RPC client is initialized
Constructed(ids, registry) ==
    /\ mock_queues = [q \in {AgentQueue(a) : a \in ids} \cup {RpcCallbackQueue(1)} |-> {q}]
    /\ mock_messages = [q \in DOMAIN mock_queues |-> <<>>]
    /\ consumers = {Consumer(AgentQueue(a), AgentCallback(a)) : a \in ids}
    /\ message_handlers = [a \in ids |-> registry[a]]
    /\ handling = [a \in ids |-> None]
    /\ last_outcome = [a \in ids |-> None]
    /\ calls = <<>>
    /\ rpc = RpcInitial(1)
    /\ uuid_count = 1
    /\ published = [count |-> 0, routing_key |-> <<>>, md |-> None]
    /\ popped = [q \in DOMAIN mock_queues |-> 0]
    /\ broker = MockBroker
    /\ stopped = [a \in ids |-> Never]
    /\ rpc_peer = None
    /\ arrived = <<>>
    /\ delivered = <<>>

Init ==
    /\ Constructed(Agents, ClassRegistry(Agents))
    /\ budget = MaxCalls
    /\ orch = [pc |-> "off"]

Next ==
    \/ ClientSend
    \/ ClientCast
    \/ ClientRpcCall
    \/ \E c \in DOMAIN calls : ClientReturn(c)
    \/ \E c \in DOMAIN calls : ClientTimeout(c)
    \/ \E c \in DOMAIN calls : ResponseDequeue(c)
    \/ RpcPoll
    \/ \E a \in Agents : AgentDequeue(a)
    \/ \E a \in Agents : ProcessMessage(a)
    \/ StrayPublish
    \/ Tick

Spec == Init /\ [][Next]_vars

-----------------------------------------------------------------------------
(* The program on its own: no third party publishes, and the threads are
   scheduled *)

LiveInit ==
    /\ Constructed(Agents, ClassRegistry(Agents))
    /\ budget = MaxLiveCalls
    /\ orch = [pc |-> "off"]

LiveNext ==
    \/ ClientSend
    \/ ClientCast
    \/ ClientRpcCall
    \/ \E c \in DOMAIN calls : ClientReturn(c)
    \/ \E c \in DOMAIN calls : ClientTimeout(c)
    \/ \E c \in DOMAIN calls : ResponseDequeue(c)
    \/ RpcPoll
    \/ \E a \in Agents : AgentDequeue(a)
    \/ \E a \in Agents : ProcessMessage(a)
    \/ Tick

\* the send_message invocations a run can hold
LiveCalls == 1..MaxLiveCalls

\* the caller's thread runs: time passes, Event.wait returns or runs out,
\* the loop of RPC.call makes its passes
CallerFairness ==
    /\ WF_vars(Tick)
    /\ WF_vars(RpcPoll)
    /\ \A c \in LiveCalls : WF_vars(ClientReturn(c)) /\ WF_vars(ClientTimeout(c))

\* every consumer thread keeps being scheduled and every callback returns
ConsumerFairness ==
    /\ \A a \in Agents : WF_vars(AgentDequeue(a)) /\ WF_vars(ProcessMessage(a))
    /\ \A c \in LiveCalls : WF_vars(ResponseDequeue(c))

\* callers scheduled; a handler may run forever
WaitSpec == LiveInit /\ [][LiveNext]_vars /\ CallerFairness

\* callers and consumer threads scheduled, handlers return
LiveSpec == LiveInit /\ [][LiveNext]_vars /\ CallerFairness /\ ConsumerFairness

-----------------------------------------------------------------------------
(* Properties of the messaging layer *)

\* the send_message invocations that blocked and have returned
Returned == {c \in DOMAIN calls : calls[c].wait /\ calls[c].pc = "returned"}

\* with no third party, what a send_message returned is one of the values
\* SendMessageReturns gives for its request, and the call waited for the
\* whole timeout exactly when it returned the timeout error
SendMessageSummary ==
    \A c \in Returned :
       /\ calls[c].result \in
             SendMessageReturns(calls[c].target,
                 WithReplyTo(Request(calls[c].caller, calls[c].type, calls[c].data),
                             calls[c].temp_queue))
       /\ calls[c].result = TimeoutResult => calls[c].elapsed = calls[c].timeout


\* C2 -- RPC correlation (P2): the value a blocking call (send_message with
\* wait_for_response=True, RPC.call) returns is a reply whose correlation_id
\* is the one generated for the call; a message with another correlation_id
\* that arrives on the reply queue is never returned.
RpcCorrelation ==
    /\ \A c \in Returned :
          calls[c].result # TimeoutResult =>
             calls[c].result_cid = calls[c].correlation_id
    /\ rpc.outcome = "return" => rpc.result_cid = rpc.correlation_id

\* C3 -- at most one response is honored: once a reply is stored in the
\* result slot of a call, no further message arriving on the reply queue
\* overwrites it or reaches the caller.
FirstResponseKept ==
    [][\A c \in DOMAIN calls :
          (calls[c].pc = "waiting" /\ calls[c].event) =>
             /\ calls'[c].response_data = calls[c].response_data
             /\ calls'[c].response_cid = calls[c].response_cid]_vars

\* the tail of the buffer of a queue
Last(buffer) == buffer[Len(buffer)]

\* C5 -- handler isolation (P4): when a registered handler raises on a
\* request carrying reply_to, the agent publishes to reply_to a response with
\* status "error" and the error text, under the request's correlation_id; its
\* consumer thread stays and is free for the next message, and a request
\* whose handler returns gets a status "success" response, whatever happened
\* before.
HandlerIsolation ==
    [][\A a \in Agents :
          (handling[a] # None /\ handling'[a] = None
              /\ "reply_to" \in DOMAIN handling[a].message
              /\ last_outcome'[a].kind \in {"raise", "return"}) =>
             LET md == handling[a]
                 reply_to == md.message["reply_to"]
                 sent == Last(mock_messages'[reply_to])
             IN  /\ Consumer(AgentQueue(a), AgentCallback(a)) \in consumers'
                 /\ published'.count = published.count + 1
                 /\ published'.routing_key = reply_to
                 /\ published'.md = sent
                 /\ Len(mock_messages'[reply_to]) > Len(mock_messages[reply_to])
                 /\ sent.correlation_id = md.correlation_id
                 /\ sent.message["type"] = ResponseType(md.message["type"])
                 /\ IF last_outcome'[a].kind = "raise"
                    THEN /\ sent.message["status"] = "error"
                         /\ sent.message["error"] = "mine_data failed"
                    ELSE /\ sent.message["status"] = "success"
                         /\ "data" \in DOMAIN sent.message]_vars

\* the first request to the data miner ended in a handler exception and came
\* back as an error response, the second one came back as a success response
ErrorThenSuccess ==
    /\ Len(calls) = 2
    /\ \A c \in {1, 2} :
          /\ c \in Returned
          /\ calls[c].target = "data_miner"
          /\ calls[c].type = "mine_data"
    /\ Get(calls[1].result, "status", "") = "error"
    /\ Get(calls[1].result, "error", "") = "mine_data failed"
    /\ Get(calls[2].result, "status", "") = "success"
    /\ Get(Get(calls[2].result, "data", <<>>), "status", "") = "success"

-----------------------------------------------------------------------------
(* Delivery and timeouts *)

\* the queue has a consumer thread
Running(queue_name) == \E t \in consumers : t.queue = queue_name

\* what the callback of the queue's consumer thread was last called with
Received(queue_name) ==
    LET t == CHOOSE t \in consumers : t.queue = queue_name
    IN  IF t.callback.kind = "_process_message"
        THEN handling[t.callback.agent]
        ELSE MessageData(calls[t.callback.call].response_data,
                         calls[t.callback.call].response_cid)

\* the queues a run can create
LiveQueues ==
    {AgentQueue(a) : a \in Agents}
    \cup {ResponseQueue(uuid) : uuid \in 1..(1 + 2 * MaxLiveCalls)}

Unhandled(routing_key, message_type) ==
    \A a \in Agents :
       routing_key = AgentQueue(a) => message_type \notin DOMAIN message_handlers[a]

\* C4 -- timeout (P3): every blocking call eventually returns; a call whose
\* request meets no handler, or whose reply queue never received anything,
\* ends with the timeout error, and a call ends with the timeout error only
\* once the configured timeout has elapsed.
Timeout ==
    /\ \A c \in LiveCalls :
          (c \in DOMAIN calls /\ calls[c].pc = "waiting")
             ~> (c \in Returned)
    /\ (rpc.pc = "waiting") ~> (rpc.pc = "idle" /\ rpc.outcome # "none")
    /\ [](\A c \in Returned :
             /\ (Unhandled(AgentQueue(calls[c].target), calls[c].type)
                    \/ Get(popped, calls[c].temp_queue, 0) = 0)
                   => calls[c].result = TimeoutResult
             /\ calls[c].result = TimeoutResult
                   => calls[c].elapsed >= calls[c].timeout)
    /\ []((rpc.pc = "idle" /\ rpc.outcome # "none") =>
             /\ Unhandled(rpc.routing_key, rpc.type) => rpc.outcome = "TimeoutError"
             /\ rpc.outcome = "TimeoutError" => rpc.elapsed > rpc.timeout)

\* a send_message to a type the data miner has not registered, one to an
\* agent that does not exist, returned the timeout error after the timeout
TimedOut ==
    \E c \in Returned :
       /\ Unhandled(AgentQueue(calls[c].target), calls[c].type)
       /\ calls[c].result = TimeoutResult
       /\ calls[c].elapsed = calls[c].timeout
       /\ calls[c].timeout = DefaultTimeout

-----------------------------------------------------------------------------
(* Orchestrator *)

\* number of sub-queries _generate_sub_queries returns at most
MaxSubQueries == 2

\* the timeout of each stage's send_message, in seconds
MineDataTimeout == 3600

CreateKnowledgeGraphTimeout == 3600

AnswerQueryTimeout == 300

ValidateAnswerTimeout == 300

GenerateReportTimeout == 1800

\* Orchestrator.__init__: the five agents on one broker
PipelineAgents == {"data_miner", "knowledge_graph", "lite_rag", "validator", "writer"}

\* the registries of the end-to-end scenario: every type an agent serves is
\* served by its stub
StubRegistry(ids) ==
    [a \in ids |-> [t \in DOMAIN RegisteredHandlers(a) |-> "stub"]]

\* the research_query arguments of run_research_pipeline
ResearchQueries == {"", "Q"}

\* the sub-queries the LLM can be asked about
Queries == <<"Q1", "Q2", "Q3", "Q4">>

\* what llm_client.generate can do: return text holding a JSON array (of
\* strings, possibly with an item that is no string, possibly empty), return
\* text without a JSON array that parses (with or without quoted questions
\* in it), or raise
LlmOutputs ==
    {[kind |-> "array",
      items |-> junk \o [i \in 1..n |-> [str |-> Queries[i]]]] :
        n \in 0..MaxSubQueries, junk \in {<<>>, <<[num |-> 1]>>}}
    \cup {[kind |-> "text", questions |-> SubSeq(Queries, 1, n)] : n \in 0..MaxSubQueries}
    \cup {[kind |-> "raise"]}

\* [q for q in sub_queries if isinstance(q, str)]
StringsOf(items) ==
    LET IsStr(q) == "str" \in DOMAIN q
        kept == SelectSeq(items, IsStr)
    IN  [i \in DOMAIN kept |-> kept[i].str]

\* _generate_sub_queries for one outcome of llm_client.generate: the strings
\* of the array when there is one, else the quoted questions when there are
\* any, else [main_query]; [main_query] when the call raised
SubQueriesFrom(main_query, llm) ==
    IF llm.kind = "raise"
    THEN <<main_query>>
    ELSE IF llm.kind = "array"
         THEN StringsOf(llm.items)
         ELSE IF llm.questions # <<>> THEN llm.questions ELSE <<main_query>>

\* _generate_sub_queries: the lists it can return
GenerateSubQueries(main_query) ==
    {SubQueriesFrom(main_query, llm) : llm \in LlmOutputs}

\* the activation of run_research_pipeline before Step 1
OrchIdle ==
    [pc |-> "idle", research_query |-> "", sub_queries |-> <<>>, answers |-> <<>>,
     answer |-> "", context |-> <<>>, trace |-> <<>>, result |-> None]

\* history: the send_message of `stage` for sub-query `query` returned `result`
Traced(o, stage, query, result) ==
    [o EXCEPT !.trace = Append(@, [stage |-> stage, query |-> query, result |-> result])]

\* the values the send_message the Orchestrator is about to make can return
Returns(target, message_type, data) ==
    SendMessageReturns(target,
        WithReplyTo(Request(target, message_type, data), ResponseQueue(uuid_count + 1)))

\* a return that keeps only the status of `result`
PipelineReturnsStatus(o, result) ==
    [o EXCEPT !.pc = "done", !.result = [status |-> result["status"]]]

\* run_research_pipeline returns `result`
PipelineReturns(o, result) == [o EXCEPT !.pc = "done", !.result = result]

\* a Step 4 that gives up on the sub-queries that are left
SkipToReport(o) == [o EXCEPT !.pc = "generate_report"]

\* the `for query in sub_queries` loop of Step 4 with `o.answers` collected:
\* answer_query is called for the next sub-query, or Step 5 starts
NextSubQuery(o) ==
    [o EXCEPT !.pc = IF Len(o.answers) < Len(o.sub_queries)
                     THEN "answer_query"
                     ELSE "generate_report"]

\* a Step 4 that puts each answer in front of those collected before
AnswerCollectedInFront(o, answer_result) ==
    [o EXCEPT !.answers =
        <<IF Get(answer_result, "status", "") = "success"
          THEN Get(answer_result, "answer", "")
          ELSE "No answer available.">> \o @]

\* Step 4 of run_research_pipeline once answer_query returned answer_result
AnswerCollected(o, answer_result) ==
    [o EXCEPT !.answers =
        Append(@, IF Get(answer_result, "status", "") = "success"
                  THEN Get(answer_result, "answer", "")
                  ELSE "No answer available.")]

\* run_research_pipeline is called
RunResearchPipeline ==
    /\ orch.pc = "idle"
    /\ \E research_query \in ResearchQueries :
          orch' = [orch EXCEPT !.pc = "mine_data", !.research_query = research_query]
    /\ UNCHANGED <<mock_queues, mock_messages, consumers, message_handlers, handling,
                   last_outcome, calls, rpc, uuid_count, budget, published, popped,
                   others>>

\* Step 1: Orchestrator.mine_data, and the check of mining_result
MineDataStep ==
    /\ orch.pc = "mine_data"
    /\ LET data == [query |-> orch.research_query, sources |-> None, max_results |-> None]
       IN  \E mining_result \in Returns("data_miner", "mine_data", data) :
              /\ SendMessage("data_miner", "data_miner", "mine_data", data,
                             MineDataTimeout, mining_result)
              /\ LET o == Traced(orch, "mine_data", orch.research_query, mining_result)
                 IN  orch' = IF Get(mining_result, "status", "") # "success"
                             THEN PipelineReturns(o, [status |-> "error",
                                                      error |-> "Data mining failed",
                                                      details |-> mining_result])
                             ELSE [o EXCEPT !.pc = "create_knowledge_graph"]
    /\ UNCHANGED <<message_handlers, handling, last_outcome, rpc, budget, popped,
                   others>>

\* Step 2: Orchestrator.create_knowledge_graph, and the check of graph_result
CreateKnowledgeGraphStep ==
    /\ orch.pc = "create_knowledge_graph"
    /\ LET data == [max_content_items |-> None]
       IN  \E graph_result \in Returns("knowledge_graph", "create_knowledge_graph", data) :
              /\ SendMessage("knowledge_graph", "knowledge_graph",
                             "create_knowledge_graph", data,
                             CreateKnowledgeGraphTimeout, graph_result)
              /\ LET o == Traced(orch, "create_knowledge_graph", "", graph_result)
                 IN  orch' = IF Get(graph_result, "status", "") # "success"
                             THEN PipelineReturns(o, [status |-> "error",
                                                      error |-> "Knowledge graph creation failed",
                                                      details |-> graph_result])
                             ELSE [o EXCEPT !.pc = "generate_sub_queries"]
    /\ UNCHANGED <<message_handlers, handling, last_outcome, rpc, budget, popped,
                   others>>

\* Step 3: _generate_sub_queries, and `answers = []`
GenerateSubQueriesStep ==
    /\ orch.pc = "generate_sub_queries"
    /\ \E sub_queries \in GenerateSubQueries(orch.research_query) :
          orch' = NextSubQuery([orch EXCEPT !.sub_queries = sub_queries, !.answers = <<>>])
    /\ UNCHANGED <<mock_queues, mock_messages, consumers, message_handlers, handling,
                   last_outcome, calls, rpc, uuid_count, budget, published, popped,
                   others>>

\* Step 4, Orchestrator.answer_query up to the check of rag_result
AnswerQueryStep ==
    /\ orch.pc = "answer_query"
    /\ LET query == orch.sub_queries[Len(orch.answers) + 1]
           data == [query |-> query]
       IN  \E rag_result \in Returns("lite_rag", "answer_query", data) :
              /\ SendMessage("lite_rag", "lite_rag", "answer_query", data,
                             AnswerQueryTimeout, rag_result)
              /\ LET o == Traced(orch, "answer_query", query, rag_result)
                 IN  orch' = IF Get(rag_result, "status", "") # "success"
                             THEN NextSubQuery(AnswerCollected(o,
                                     [status |-> "error",
                                      error |-> "Failed to get answer from LiteRAGAgent"]))
                             ELSE [o EXCEPT !.pc = "validate_answer",
                                            !.answer = Get(rag_result, "answer", ""),
                                            !.context = Get(rag_result, "context", <<>>)]
    /\ UNCHANGED <<message_handlers, handling, last_outcome, rpc, budget, popped,
                   others>>

\* Step 4, the rest of Orchestrator.answer_query: the validation and the
\* choice of the answer, then `answers.append`
ValidateAnswerStep ==
    /\ orch.pc = "validate_answer"
    /\ LET query == orch.sub_queries[Len(orch.answers) + 1]
           data == [query |-> query, answer |-> orch.answer, context |-> orch.context]
       IN  \E validation_result \in Returns("validator", "validate_answer", data) :
              /\ SendMessage("validator", "validator", "validate_answer", data,
                             ValidateAnswerTimeout, validation_result)
              /\ LET o == Traced(orch, "validate_answer", query, validation_result)
                     validation == Get(validation_result, "validation_result", <<>>)
                     corrected_answer == Get(validation, "corrected_answer", orch.answer)
                 IN  orch' = IF Get(validation_result, "status", "") # "success"
                             THEN NextSubQuery(AnswerCollected(o,
                                     [status |-> "error",
                                      error |-> "Failed to validate answer"]))
                             ELSE NextSubQuery(AnswerCollected(o,
                                     [status |-> "success", query |-> query,
                                      answer |-> corrected_answer,
                                      validation |-> validation]))
    /\ UNCHANGED <<message_handlers, handling, last_outcome, rpc, budget, popped,
                   others>>

\* Step 5: Orchestrator.generate_report, the check of report_result, and the
\* result of the pipeline
GenerateReportStep ==
    /\ orch.pc = "generate_report"
    /\ LET data == [title |-> <<"Research Report: ", orch.research_query>>,
                    queries |-> orch.sub_queries,
                    answers |-> orch.answers,
                    output_path |-> "report.pdf"]
       IN  \E report_result \in Returns("writer", "generate_report", data) :
              /\ SendMessage("writer", "writer", "generate_report", data,
                             GenerateReportTimeout, report_result)
              /\ LET o == Traced(orch, "generate_report", "", report_result)
                 IN  orch' = IF Get(report_result, "status", "") # "success"
                             THEN PipelineReturns(o, [status |-> "error",
                                                      error |-> "Report generation failed",
                                                      details |-> report_result])
                             ELSE PipelineReturns(o,
                                     [status |-> "success",
                                      research_query |-> orch.research_query,
                                      sub_queries |-> orch.sub_queries,
                                      answers |-> orch.answers,
                                      report_path |-> Get(report_result, "report_path", "")])
    /\ UNCHANGED <<message_handlers, handling, last_outcome, rpc, budget, popped,
                   others>>

\* the Orchestrator is constructed, with the agents' own handlers or with the
\* stubs of the end-to-end scenario
PipelineInit ==
    /\ \E registry \in {ClassRegistry(PipelineAgents), StubRegistry(PipelineAgents)} :
          Constructed(PipelineAgents, registry)
    /\ budget = 0
    /\ orch = OrchIdle

PipelineNext ==
    \/ RunResearchPipeline
    \/ MineDataStep
    \/ CreateKnowledgeGraphStep
    \/ GenerateSubQueriesStep
    \/ AnswerQueryStep
    \/ ValidateAnswerStep
    \/ GenerateReportStep

PipelineSpec == PipelineInit /\ [][PipelineNext]_vars

-----------------------------------------------------------------------------
(* Properties of the pipeline *)

\* the message types of the requests published so far, in order
Types == [c \in DOMAIN calls |-> calls[c].type]

\* the value a stage's send_message returned does not have status "success"
\* (the timeout error is such a value)
Unsuccessful(result) == Get(result, "status", "") # "success"

\* the handler's own result, carried in the "data" of the response, reports
\* a status other than "success"
ReportsFailure(result) ==
    "status" \in DOMAIN Get(result, "data", <<>>) /\ result["data"]["status"] # "success"

\* the requests of the first `c` that are answer_query requests
AnswerQueries(c) == {k \in 1..c : Types[k] = "answer_query"}

\* the position in the trace of the answer_query of the i-th sub-query
AnswerAt(i) ==
    CHOOSE j \in DOMAIN orch.trace :
       orch.trace[j].stage = "answer_query" /\ Cardinality(AnswerQueries(j)) = i

\* the i-th sub-query got as far as its validation
Validated(i) ==
    /\ AnswerAt(i) + 1 \in DOMAIN orch.trace
    /\ orch.trace[AnswerAt(i) + 1].stage = "validate_answer"

\* C6 -- pipeline abort (P6): if the mine_data handler reports a non-success
\* status, run_research_pipeline returns a status "error" result that refers
\* to data mining and publishes no request of a later stage.
PipelineAbort ==
    (orch.trace # <<>>
        /\ (Unsuccessful(orch.trace[1].result) \/ ReportsFailure(orch.trace[1].result))) =>
       /\ orch.pc = "done"
       /\ orch.result["status"] = "error"
       /\ orch.result["error"] = "Data mining failed"
       /\ Types = <<"mine_data">>

\* C7 -- the stages run in the order mine_data, create_knowledge_graph,
\* sub-query generation, answer_query then validate_answer for each
\* sub-query in turn, generate_report; a request is published only once the
\* send_message before it has returned with status "success" where the
\* pipeline requires it; and when the send_message of stage 1, 2 or 5
\* returns the timeout error or another non-success status, the pipeline
\* returns the error result of that stage and publishes nothing more.
StageOrder ==
    /\ Len(orch.trace) = Len(calls)
    /\ \A c \in DOMAIN calls :
          /\ calls[c].pc = "returned"
          /\ orch.trace[c].stage = Types[c]
          /\ c = 1 => Types[c] = "mine_data"
          /\ c = 2 => Types[c] = "create_knowledge_graph"
          /\ c > 1 => ~Unsuccessful(orch.trace[1].result)
          /\ c > 2 =>
                /\ ~Unsuccessful(orch.trace[2].result)
                /\ Types[c] \in {"answer_query", "validate_answer", "generate_report"}
          /\ Types[c] = "answer_query" =>
                /\ Cardinality(AnswerQueries(c)) <= Len(orch.sub_queries)
                /\ orch.trace[c].query = orch.sub_queries[Cardinality(AnswerQueries(c))]
                /\ Types[c - 1] = "answer_query" => Unsuccessful(orch.trace[c - 1].result)
                /\ Types[c - 1] # "generate_report"
          /\ Types[c] = "validate_answer" =>
                /\ Types[c - 1] = "answer_query"
                /\ ~Unsuccessful(orch.trace[c - 1].result)
                /\ orch.trace[c].query = orch.trace[c - 1].query
          /\ Types[c] = "generate_report" =>
                /\ c = Len(calls)
                /\ Cardinality(AnswerQueries(c)) = Len(orch.sub_queries)
                /\ Len(orch.answers) = Len(orch.sub_queries)
                /\ Types[c - 1] = "answer_query" => Unsuccessful(orch.trace[c - 1].result)
                /\ orch.pc = "done"
    /\ \A c \in DOMAIN calls :
          (Types[c] \in {"mine_data", "create_knowledge_graph", "generate_report"}
              /\ Unsuccessful(orch.trace[c].result)) =>
             /\ c = Len(calls)
             /\ orch.pc = "done"
             /\ orch.result["status"] = "error"
             /\ orch.result["details"] = orch.trace[c].result
             /\ orch.result["error"] =
                   (CASE Types[c] = "mine_data" -> "Data mining failed"
                      [] Types[c] = "create_knowledge_graph" -> "Knowledge graph creation failed"
                      [] Types[c] = "generate_report" -> "Report generation failed")
    /\ (orch.sub_queries # <<>> \/ orch.answers # <<>>) => Len(calls) >= 2

\* every stage ran, in order, for two sub-queries, and the report stage
\* timed out: the pipeline returned the error of the report stage
AllStagesThenReportTimeout ==
    /\ Types = <<"mine_data", "create_knowledge_graph", "answer_query", "validate_answer",
                 "answer_query", "validate_answer", "generate_report">>
    /\ orch.sub_queries = <<"Q1", "Q2">>
    /\ orch.trace[7].result = TimeoutResult
    /\ calls[7].elapsed = GenerateReportTimeout
    /\ orch.pc = "done"
    /\ orch.result["error"] = "Report generation failed"

\* answer_query or validate_answer failed or timed out for the i-th sub-query
SubQueryFailed(i) ==
    \/ Unsuccessful(orch.trace[AnswerAt(i)].result)
    \/ ReportsFailure(orch.trace[AnswerAt(i)].result)
    \/ /\ Validated(i)
       /\ \/ Unsuccessful(orch.trace[AnswerAt(i) + 1].result)
          \/ ReportsFailure(orch.trace[AnswerAt(i) + 1].result)

\* C8 -- stage-4 partial failure: if answer_query or validate_answer fails
\* or times out for a sub-query, its entry in answers is the placeholder
\* "No answer available", the other sub-queries are still processed and
\* generate_report is still invoked.
PartialFailure ==
    /\ \A i \in DOMAIN orch.answers :
          SubQueryFailed(i) => orch.answers[i] = "No answer available"
    /\ orch.pc = "done" /\ Len(calls) > 2 =>
          /\ Len(orch.answers) = Len(orch.sub_queries)
          /\ Types[Len(calls)] = "generate_report"

\* the agents serve their types with the stubs of the end-to-end scenario
Stubbed == message_handlers = StubRegistry(PipelineAgents)

\* C9 -- end-to-end scenario: with the stub handlers and the sub-queries
\* ["Q1", "Q2"], and no send_message timing out, run_research_pipeline
\* returns status "success", sub_queries ["Q1", "Q2"], answers ["A1", "A2"]
\* and report_path "out/report.pdf".
EndToEnd ==
    (/\ Stubbed
     /\ orch.pc = "done"
     /\ orch.sub_queries = <<"Q1", "Q2">>
     /\ \A j \in DOMAIN orch.trace : orch.trace[j].result # TimeoutResult) =>
       /\ orch.result["status"] = "success"
       /\ orch.result["sub_queries"] = <<"Q1", "Q2">>
       /\ orch.result["answers"] = <<"A1", "A2">>
       /\ orch.result["report_path"] = "out/report.pdf"

\* C10 -- for every sub-query that answer_query answers, the recorded answer
\* is the validator's corrected_answer when the validator's result holds
\* one, and the answerer's raw answer otherwise.
CorrectedAnswerSupersedes ==
    \A i \in DOMAIN orch.answers :
       (/\ Validated(i)
        /\ ~Unsuccessful(orch.trace[AnswerAt(i)].result)
        /\ ~Unsuccessful(orch.trace[AnswerAt(i) + 1].result)) =>
          LET raw == Get(Get(orch.trace[AnswerAt(i)].result, "data", <<>>), "answer", "")
              validation == Get(Get(orch.trace[AnswerAt(i) + 1].result, "data", <<>>),
                                "validation_result", <<>>)
          IN  orch.answers[i] = Get(validation, "corrected_answer", raw)

-----------------------------------------------------------------------------
(* The response protocol *)

\* C11 -- response protocol: a dispatch of an envelope of a registered type
\* that carries reply_to publishes exactly one response, to that address,
\* with type = request type + "_response", status "success" with data or
\* status "error" with error (never both), under the request's
\* correlation_id; a dispatch of an envelope without reply_to publishes
\* nothing.
ResponseProtocol ==
    \A a \in DOMAIN last_outcome :
       (last_outcome[a] # None /\ last_outcome[a].kind # "unknown") =>
          LET md == last_outcome[a].md
              sent == last_outcome[a].sent
          IN  IF "reply_to" \in DOMAIN md.message
              THEN /\ Len(sent) = 1
                   /\ sent[1].to = md.message["reply_to"]
                   /\ sent[1].correlation_id = md.correlation_id
                   /\ sent[1].message["type"] = ResponseType(md.message["type"])
                   /\ sent[1].message["status"] \in {"success", "error"}
                   /\ ("data" \in DOMAIN sent[1].message)
                         # ("error" \in DOMAIN sent[1].message)
                   /\ ("data" \in DOMAIN sent[1].message)
                         <=> (sent[1].message["status"] = "success")
              ELSE sent = <<>>

-----------------------------------------------------------------------------
(* publish_message while another thread is in create_queue

   Nothing guards mock_queues: the loop of publish_message iterates
   mock_queues.items() while send_message, in the caller's thread, inserts
   the temporary queue of its next call.  A dict that grows while it is
   iterated makes the next step of the iteration raise RuntimeError; what
   the loop appended before that stays appended. *)

\* the order in which Orchestrator.__init__ constructs the agents
AgentOrder == <<"data_miner", "knowledge_graph", "lite_rag", "validator", "writer">>

\* position of a queue in the insertion order of the dict mock_queues: the
\* agents' queues as constructed, then the queues named after a uuid, which
\* are created in the order the uuids are drawn
QueueRank(queue_name) ==
    IF queue_name[1] = "agent_"
    THEN CHOOSE i \in DOMAIN AgentOrder : AgentOrder[i] = queue_name[2]
    ELSE Len(AgentOrder) + queue_name[2]

\* the queues the loop has visited after n steps of mock_queues.items()
Visited(mq, n) ==
    {q \in DOMAIN mq : Cardinality({p \in DOMAIN mq : QueueRank(p) < QueueRank(q)}) < n}

\* publish_message cut short: the message is stored under the routing key,
\* the loop delivers to the bound queues among the first n it visits, and
\* its next step raises RuntimeError because mock_queues has grown
PublishInterrupted(mm, mq, routing_key, message, correlation_id, n) ==
    LET md == MessageData(message, correlation_id)
        bound == BoundQueues(mq, routing_key) \cap Visited(mq, n)
        names == DOMAIN mm \cup {routing_key} \cup bound
    IN  [name \in names |->
            (IF name \in DOMAIN mm THEN mm[name] ELSE <<>>)
            \o Repeat(md, (IF name = routing_key THEN 1 ELSE 0)
                          + (IF name \in bound THEN 1 ELSE 0))]

\* str(e) of the RuntimeError
DictChanged == "dictionary changed size during iteration"

\* the publish_message calls of a _process_message whose first publish
\* raised: a response published in the try block is followed by the error
\* response of the except block; the exception of a publish made in the
\* except block leaves _process_message
ResponsesInterrupted(agent_id, message, outcome) ==
    IF outcome.kind = "return"
    THEN Responses(agent_id, message, outcome)
         \o <<[to |-> message["reply_to"],
               message |-> ErrorResponse(agent_id, message["type"], DictChanged)]>>
    ELSE Responses(agent_id, message, outcome)

\* the client calls send_message(..., wait_for_response=True) while agent a's
\* _process_message is inside the loop of publish_message, n steps into it:
\* create_queue inserts the temporary queue, the agent's publish raises, the
\* agent goes on as _process_message tells it to, and the client publishes
\* its request
SendDuringPublish(a) ==
    /\ ClientIdle
    /\ budget > 0
    /\ budget' = budget - 1
    /\ handling[a] # None
    /\ "reply_to" \in DOMAIN handling[a].message
    /\ Get(handling[a].message, "type", "") \in DOMAIN message_handlers[a]
    /\ LET md == handling[a]
           message == md.message
           c == Len(calls) + 1
           temp_queue == ResponseQueue(uuid_count + 1)
           correlation_id == uuid_count + 2
           mq == CreateQueueBindings(mock_queues, temp_queue, {temp_queue})
       IN  \E in \in SendInputs, n \in 0..Cardinality(DOMAIN mock_queues),
              outcome \in HandlerOutcomes(message_handlers[a][message["type"]],
                                          a, message["type"], message) :
              LET out == ResponsesInterrupted(a, message, outcome)
                  request == WithReplyTo(Request("lite_rag", in.type, in.data), temp_queue)
                  cut == PublishInterrupted(mock_messages, mock_queues, out[1].to,
                                            out[1].message, md.correlation_id, n)
                  created == CreateQueueMessages(cut, temp_queue)
                  answered == IF Len(out) = 2
                              THEN PublishMessage(created, mq, out[2].to, out[2].message,
                                                  md.correlation_id)
                              ELSE created
              IN  /\ mock_queues' = mq
                  /\ consumers' = consumers \cup {Consumer(temp_queue, ResponseCallback(c))}
                  /\ mock_messages' = PublishMessage(answered, mq, AgentQueue(in.target),
                                                     request, correlation_id)
                  /\ published' = [LogPublish(published, AgentQueue(in.target),
                                              request, correlation_id)
                                      EXCEPT !.count = published.count + Len(out) + 1]
                  /\ uuid_count' = uuid_count + 2
                  /\ last_outcome' = [last_outcome EXCEPT ![a] =
                        [Dispatched(md, outcome.kind, Sent(out, md.correlation_id, mq))
                            EXCEPT !.sent[1].raised = TRUE,
                                   !.sent[1].reached =
                                       {out[1].to} \cup (BoundQueues(mock_queues, out[1].to)
                                                           \cap Visited(mock_queues, n))]]
                  /\ calls' = Append(calls,
                        [caller |-> "lite_rag", target |-> in.target, type |-> in.type,
                         data |-> in.data,
                         wait |-> TRUE, temp_queue |-> temp_queue,
                         correlation_id |-> correlation_id,
                         timeout |-> DefaultTimeout, elapsed |-> 0,
                         response_data |-> None, response_cid |-> 0, event |-> FALSE,
                         pc |-> "waiting", result |-> None, result_cid |-> 0])
    /\ IF CallsStop(message_handlers[a], handling[a].message)
       THEN Stop(a)
       ELSE UNCHANGED teardown
    /\ handling' = [handling EXCEPT ![a] = None]
    /\ UNCHANGED <<message_handlers, rpc, popped, orch, rpc_peer, recorded>>

RaceNext ==
    \/ LiveNext
    \/ \E a \in Agents : SendDuringPublish(a)

\* the program on its own, with its threads interleaved inside publish_message
RaceSpec == Init /\ [][RaceNext]_vars

\* C16 -- the routing tables are safe under concurrency: no publish_message
\* call fails, whatever create_queue does meanwhile, and every queue bound
\* to the key holds the published envelope afterwards.
ConcurrencySafe ==
    \A a \in DOMAIN last_outcome :
       last_outcome[a] # None =>
          \A i \in DOMAIN last_outcome[a].sent :
             /\ ~last_outcome[a].sent[i].raised
             /\ BoundQueues(mock_queues, last_outcome[a].sent[i].to)
                   \subseteq last_outcome[a].sent[i].reached

\* C12 -- an envelope whose type has no registered handler is dropped: its
\* dispatch publishes nothing, with or without reply_to, leaves the buffers,
\* the bindings and the handler registry as they were, and the agent's
\* consumer thread stays and takes the next buffered envelope.
UnknownTypeDropped ==
    /\ [][\A a \in Agents :
             (/\ handling[a] # None
              /\ handling'[a] = None
              /\ Get(handling[a].message, "type", "") \notin DOMAIN message_handlers[a]) =>
                /\ mock_messages' = mock_messages
                /\ published' = published
                /\ mock_queues' = mock_queues
                /\ message_handlers' = message_handlers
                /\ consumers' = consumers
                /\ last_outcome'[a].kind = "unknown"
                /\ last_outcome'[a].sent = <<>>]_vars
    /\ [](\A a \in Agents :
             (handling[a] = None /\ Len(mock_messages[AgentQueue(a)]) > 0) =>
                ENABLED AgentDequeue(a))

\* a request of a type the data miner has no handler for, carrying reply_to,
\* was dispatched and dropped: its caller got the timeout error; the next
\* request to the data miner was served
UnknownThenServed ==
    /\ Len(calls) = 2
    /\ \A c \in {1, 2} : c \in Returned /\ calls[c].target = "data_miner"
    /\ calls[1].type = "bogus"
    /\ calls[1].result = TimeoutResult
    /\ Get(popped, calls[1].temp_queue, 0) = 0
    /\ calls[2].type = "mine_data"
    /\ Get(calls[2].result, "status", "") = "success"
    /\ Get(popped, AgentQueue("data_miner"), 0) = 4

-----------------------------------------------------------------------------
(* Teardown: BaseAgent.stop, the stop message, Orchestrator.stop *)

\* number of send_message calls made around the teardown
MaxTeardownCalls == 1

\* the requests sent around the teardown
TeardownInputs ==
    {[target |-> "data_miner", type |-> "ping", data |-> <<>>],
     [target |-> "data_miner", type |-> "stop", data |-> <<>>]}

\* the Orchestrator before stop() is called
OrchRunning == [pc |-> "running", i |-> 0]

\* the main thread is neither inside a blocking send_message nor inside
\* Orchestrator.stop
MainIdle == ClientIdle /\ orch.pc \in {"running", "stopped"}

\* the main thread calls send_message(target, type, data, wait_for_response=True)
TeardownSend ==
    /\ MainIdle
    /\ broker.use_mock
    /\ budget > 0
    /\ budget' = budget - 1
    /\ \E in \in TeardownInputs :
          SendAndWait("writer", in.target, in.type, in.data, DefaultTimeout)
    /\ UNCHANGED <<message_handlers, handling, last_outcome, rpc, popped, orch, others>>

\* Orchestrator.stop is called: the list of agents is built
OrchestratorStop ==
    /\ MainIdle
    /\ orch.pc = "running"
    /\ orch' = [orch EXCEPT !.pc = "stop", !.i = 1]
    /\ UNCHANGED <<mock_queues, mock_messages, consumers, message_handlers, handling,
                   last_outcome, calls, rpc, uuid_count, budget, published, popped,
                   others>>

\* `for agent in agents: agent.stop()`, one agent
StopNextAgent ==
    /\ orch.pc = "stop"
    /\ orch.i <= Len(AgentOrder)
    /\ Stop(AgentOrder[orch.i])
    /\ orch' = [orch EXCEPT !.i = @ + 1]
    /\ UNCHANGED <<mock_queues, mock_messages, consumers, message_handlers, handling,
                   last_outcome, calls, rpc, uuid_count, budget, published, popped,
                   rpc_peer, recorded>>

\* `self.message_broker.close()` at the end of Orchestrator.stop
CloseBroker ==
    /\ orch.pc = "stop"
    /\ orch.i > Len(AgentOrder)
    /\ broker' = Close(broker)
    /\ orch' = [orch EXCEPT !.pc = "stopped"]
    /\ UNCHANGED <<mock_queues, mock_messages, consumers, message_handlers, handling,
                   last_outcome, calls, rpc, uuid_count, budget, published, popped,
                   stopped, rpc_peer, recorded>>

\* the Orchestrator is constructed on a broker connected to the transport:
\* the mock tables do not exist and the consumers are the transport's
ConstructedOnTransport(ids, registry) ==
    /\ mock_queues = <<>>
    /\ mock_messages = <<>>
    /\ consumers = {}
    /\ message_handlers = [a \in ids |-> registry[a]]
    /\ handling = [a \in ids |-> None]
    /\ last_outcome = [a \in ids |-> None]
    /\ calls = <<>>
    /\ rpc = RpcInitial(1)
    /\ uuid_count = 1
    /\ published = [count |-> 0, routing_key |-> <<>>, md |-> None]
    /\ popped = <<>>
    /\ broker = ConnectedBroker
    /\ stopped = [a \in ids |-> Never]
    /\ rpc_peer = None
    /\ arrived = <<>>
    /\ delivered = <<>>

TeardownInit ==
    /\ \/ Constructed(PipelineAgents, ClassRegistry(PipelineAgents))
       \/ ConstructedOnTransport(PipelineAgents, ClassRegistry(PipelineAgents))
    /\ budget = MaxTeardownCalls
    /\ orch = OrchRunning

TeardownNext ==
    \/ TeardownSend
    \/ OrchestratorStop
    \/ StopNextAgent
    \/ CloseBroker
    \/ \E c \in DOMAIN calls : ClientReturn(c)
    \/ \E c \in DOMAIN calls : ClientTimeout(c)
    \/ \E c \in DOMAIN calls : ResponseDequeue(c)
    \/ \E a \in PipelineAgents : AgentDequeue(a)
    \/ \E a \in PipelineAgents : ProcessMessage(a)
    \/ Tick

TeardownSpec == TeardownInit /\ [][TeardownNext]_vars

\* C13 -- agent lifecycle: once stop() has been invoked on an agent, by the
\* Orchestrator or by its own stop handler, no envelope published to its
\* queue afterwards is dispatched to one of its handlers.
StoppedForGood ==
    \A a \in DOMAIN stopped :
       (stopped[a] # Never /\ handling[a] # None) =>
          handling[a].correlation_id <= stopped[a]

\* the agents Orchestrator.stop has called stop() on so far
StoppedByOrchestrator == {AgentOrder[k] : k \in 1..(orch.i - 1)}

\* C20 -- Orchestrator.stop calls stop() on each of the five agents, in the
\* order of its list, and closes the broker only after the last of them;
\* every agent's stop() closes the same broker, so close() is invoked six
\* times or more, and every invocation after the first finds the connection
\* not open, leaves it as it is and raises nothing.
OrchestratorTeardown ==
    /\ [](orch.pc \in {"stop", "stopped"} =>
             /\ \A a \in StoppedByOrchestrator : stopped[a] # Never
             /\ broker.closes >= orch.i - 1
             /\ orch.pc = "stopped" =>
                   /\ StoppedByOrchestrator = PipelineAgents
                   /\ broker.closes >= Len(AgentOrder) + 1)
    /\ [](/\ broker.error = ""
          /\ broker.closes >= 1 => broker.connection # "open")
    /\ [][/\ (orch.pc = "stop" /\ orch'.pc = "stopped") =>
                /\ \A a \in PipelineAgents : stopped[a] # Never
                /\ broker'.closes = broker.closes + 1
          /\ (broker.closes >= 1 /\ broker'.closes > broker.closes) =>
                /\ broker'.connection = broker.connection
                /\ broker'.error = ""]_vars

\* Orchestrator.stop returned on a broker connected to the transport: the
\* five agents were stopped, close() was called six times and the connection
\* is closed
TornDown ==
    /\ orch.pc = "stopped"
    /\ ~broker.use_mock
    /\ broker.closes = Len(AgentOrder) + 1
    /\ broker.connection = "closed"
    /\ \A a \in PipelineAgents : stopped[a] # Never

-----------------------------------------------------------------------------
(* Reply queues *)

\* C14 -- reply queues are ephemeral: once a blocking send_message has
\* returned, with a reply or with the timeout error, its reply queue is in
\* neither routing table and no consumer thread runs for it; when no call is
\* in progress the consumer threads are the agents' own.
ReplyQueuesEphemeral ==
    /\ \A c \in Returned :
          /\ calls[c].temp_queue \notin DOMAIN mock_queues
          /\ calls[c].temp_queue \notin DOMAIN mock_messages
          /\ ~Running(calls[c].temp_queue)
    /\ ClientIdle =>
          consumers = {Consumer(AgentQueue(a), AgentCallback(a)) : a \in DOMAIN handling}

-----------------------------------------------------------------------------
(* Two callers at a time *)

\* the second thread is not inside a blocking call
PeerIdle ==
    /\ ~PeerWaiting
    /\ \A c \in DOMAIN calls : calls[c].caller = "data_miner" => calls[c].pc # "waiting"

\* the second thread calls send_message(target, type, data,
\* wait_for_response=True) on another agent object, whatever the first
\* thread is doing
PeerSend ==
    /\ PeerIdle
    /\ budget > 0
    /\ budget' = budget - 1
    /\ \E in \in SendInputs :
          SendAndWait("data_miner", in.target, in.type, in.data, DefaultTimeout)
    /\ UNCHANGED <<message_handlers, handling, last_outcome, rpc, popped, orch, others>>

\* the second thread calls RPC.call(routing_key, message) on the RPC object
\* the first thread uses: self.response and self.correlation_id are the
\* object's, the start time and the timeout are the call's
PeerRpcCall ==
    /\ PeerIdle
    /\ budget > 0
    /\ budget' = budget - 1
    /\ \E in \in RpcInputs :
          LET correlation_id == uuid_count + 1
              request == WithReplyTo(Request("peer", in.type, in.data), rpc.callback_queue)
          IN  /\ rpc' = [rpc EXCEPT !.response = None, !.response_cid = 0,
                                    !.correlation_id = correlation_id]
              /\ rpc_peer' = [pc |-> "waiting", elapsed |-> 0, timeout |-> DefaultTimeout,
                              own_cid |-> correlation_id, outcome |-> "none",
                              result |-> None, result_cid |-> 0]
              /\ uuid_count' = uuid_count + 1
              /\ mock_messages' = PublishMessage(mock_messages, mock_queues,
                                                 AgentQueue(in.target), request,
                                                 correlation_id)
              /\ published' = LogPublish(published, AgentQueue(in.target), request,
                                         correlation_id)
    /\ UNCHANGED <<mock_queues, consumers, message_handlers, handling, last_outcome,
                   calls, popped, orch, teardown, recorded>>

\* one pass of the wait loop of the second thread's RPC.call
PeerRpcPoll ==
    /\ PeerWaiting
    /\ LET pass == RpcPass(rpc_peer, rpc, CallbackBuffer)
       IN  /\ mock_messages' = IF pass.buffer # CallbackBuffer
                               THEN [mock_messages EXCEPT ![rpc.callback_queue] = pass.buffer]
                               ELSE mock_messages
           /\ rpc' = [rpc EXCEPT !.response = pass.response,
                                 !.response_cid = pass.response_cid]
           /\ rpc_peer' = [rpc_peer EXCEPT !.pc = pass.pc, !.outcome = pass.outcome,
                                           !.result = pass.result,
                                           !.result_cid = pass.result_cid]
    /\ UNCHANGED <<mock_queues, consumers, message_handlers, handling, last_outcome,
                   calls, uuid_count, budget, published, popped, orch,
                   teardown, recorded>>

ConcurrentNext ==
    \/ LiveNext
    \/ PeerSend
    \/ PeerRpcCall
    \/ PeerRpcPoll

\* the program with two calling threads and no third party
ConcurrentSpec == Init /\ [][ConcurrentNext]_vars

\* C15 -- concurrent calls are independent: each blocking call has a reply
\* queue of its own, and what it returns is a response to its own request,
\* whatever other call is in flight at the time.
CallsIndependent ==
    /\ \A c, d \in {x \in DOMAIN calls : calls[x].wait} :
          c # d => calls[c].temp_queue # calls[d].temp_queue
    /\ \A c \in Returned :
          calls[c].result # TimeoutResult => calls[c].result_cid = calls[c].correlation_id
    /\ rpc.outcome = "return" => rpc.result_cid = rpc.own_cid
    /\ (rpc_peer # None /\ rpc_peer.outcome = "return") =>
          rpc_peer.result_cid = rpc_peer.own_cid

-----------------------------------------------------------------------------
(* The mock broker on its own: a client creates queues, starts consumer
   threads whose callback records what it is called with, and publishes *)

\* number of create_queue and publish_message calls the client makes
MaxBrokerCalls == 4

\* the routing key of BaseAgent.broadcast_message
BroadcastKey == <<"broadcast", "">>

\* the create_queue calls: an agent's queue bound to its own name, as
\* BaseAgent.__init__ binds it, and a queue bound to the broadcast key
CreateInputs ==
    {[queue_name |-> AgentQueue("data_miner"), routing_keys |-> {AgentQueue("data_miner")}],
     [queue_name |-> <<"events_", "">>, routing_keys |-> {BroadcastKey}]}

\* the routing keys the client publishes to
PublishKeys == {AgentQueue("data_miner"), BroadcastKey}

\* the callback of the recording consumers
RecorderCallback == [kind |-> "recorder"]

\* history of the appends of one publish_message call
Arrive(arr, mq, routing_key, message, correlation_id) ==
    LET names == DOMAIN arr \cup {routing_key} \cup BoundQueues(mq, routing_key)
    IN  [name \in names |->
            (IF name \in DOMAIN arr THEN arr[name] ELSE <<>>)
            \o Repeat(MessageData(message, correlation_id),
                      CopiesFor(mq, routing_key, name))]

\* history of the calls of a callback
Deliver(del, queue_name, md) ==
    [q \in DOMAIN del \cup {queue_name} |->
        (IF q \in DOMAIN del THEN del[q] ELSE <<>>)
        \o (IF q = queue_name THEN <<md>> ELSE <<>>)]

\* the client calls create_queue(queue_name, routing_keys), for the first
\* time or again
BrokerCreateQueue ==
    /\ budget > 0
    /\ budget' = budget - 1
    /\ \E in \in CreateInputs :
          /\ mock_queues' = CreateQueueBindings(mock_queues, in.queue_name, in.routing_keys)
          /\ mock_messages' = CreateQueueMessages(mock_messages, in.queue_name)
    /\ UNCHANGED <<consumers, message_handlers, handling, last_outcome, calls, rpc,
                   uuid_count, published, popped, orch, others>>

\* the client calls start_consumer_thread(queue_name, callback) for a queue
\* it created: _mock_consumer_thread starts
BrokerStartConsumer ==
    /\ \E q \in DOMAIN mock_queues :
          /\ ~Running(q)
          /\ consumers' = consumers \cup {Consumer(q, RecorderCallback)}
    /\ UNCHANGED <<mock_queues, mock_messages, message_handlers, handling, last_outcome,
                   calls, rpc, uuid_count, budget, published, popped, orch, others>>

\* the client calls publish_message(routing_key, message, correlation_id)
BrokerPublish ==
    /\ budget > 0
    /\ budget' = budget - 1
    /\ \E routing_key \in PublishKeys :
          LET correlation_id == uuid_count + 1
              message == [type |-> "event", data |-> [n |-> published.count + 1]]
          IN  /\ mock_messages' = PublishMessage(mock_messages, mock_queues, routing_key,
                                                 message, correlation_id)
              /\ published' = LogPublish(published, routing_key, message, correlation_id)
              /\ arrived' = Arrive(arrived, mock_queues, routing_key, message, correlation_id)
    /\ uuid_count' = uuid_count + 1
    /\ UNCHANGED <<mock_queues, consumers, message_handlers, handling, last_outcome,
                   calls, rpc, popped, orch, teardown, rpc_peer, delivered>>

\* one pass of _mock_consumer_thread that finds a message: it pops the first
\* one and calls the callback with it
BrokerConsume ==
    /\ \E t \in consumers :
          /\ t.callback = RecorderCallback
          /\ HasMessage(mock_messages, t.queue)
          /\ mock_messages' = [mock_messages EXCEPT ![t.queue] = Tail(@)]
          /\ popped' = LogPop(popped, t.queue)
          /\ delivered' = Deliver(delivered, t.queue, Head(mock_messages[t.queue]))
    /\ UNCHANGED <<mock_queues, consumers, message_handlers, handling, last_outcome,
                   calls, rpc, uuid_count, budget, published, orch,
                   teardown, rpc_peer, arrived>>

\* MessageBroker(use_mock=True): empty tables, nobody else on the broker
BrokerInit ==
    /\ mock_queues = <<>>
    /\ mock_messages = <<>>
    /\ consumers = {}
    /\ message_handlers = <<>>
    /\ handling = <<>>
    /\ last_outcome = <<>>
    /\ calls = <<>>
    /\ rpc = None
    /\ uuid_count = 0
    /\ budget = MaxBrokerCalls
    /\ published = [count |-> 0, routing_key |-> <<>>, md |-> None]
    /\ popped = <<>>
    /\ orch = [pc |-> "off"]
    /\ broker = MockBroker
    /\ stopped = <<>>
    /\ rpc_peer = None
    /\ arrived = <<>>
    /\ delivered = <<>>

BrokerNext ==
    \/ BrokerCreateQueue
    \/ BrokerStartConsumer
    \/ BrokerPublish
    \/ BrokerConsume

BrokerSpec == BrokerInit /\ [][BrokerNext]_vars

\* the number of entries of a buffer that hold the envelope published under
\* correlation_id
Copies(buffer, correlation_id) ==
    Cardinality({i \in DOMAIN buffer : buffer[i].correlation_id = correlation_id})

\* C17 -- idempotent queue creation (P5): create_queue called again with the
\* bindings a queue has leaves the bindings and the pending envelopes as
\* they are, and an envelope published to one of the keys of a queue reaches
\* that queue exactly once.
CreateQueueIdempotent ==
    /\ [][\A in \in CreateInputs :
             (/\ in.queue_name \in DOMAIN mock_queues
              /\ mock_queues[in.queue_name] = in.routing_keys
              /\ mock_queues' = CreateQueueBindings(mock_queues, in.queue_name,
                                                    in.routing_keys)
              /\ published' = published /\ consumers' = consumers
              /\ popped' = popped) =>
                /\ mock_queues' = mock_queues
                /\ mock_messages' = mock_messages]_vars
    /\ [][published'.count # published.count =>
             \A q \in BoundQueues(mock_queues, published'.routing_key) :
                Copies(mock_messages'[q], published'.md.correlation_id) = 1]_vars

\* C19 -- FIFO per queue: the envelopes a queue's callback has been called
\* with, followed by those still buffered, are the envelopes appended to the
\* queue in the order they were appended; so of two envelopes the one
\* appended first is the one delivered first.
FifoPerQueue ==
    \A q \in DOMAIN arrived :
       /\ Get(delivered, q, <<>>) \o Get(mock_messages, q, <<>>) = arrived[q]
       /\ \A i, j \in DOMAIN Get(delivered, q, <<>>) :
             i < j => delivered[q][i] = arrived[q][i] /\ delivered[q][j] = arrived[q][j]

\* two envelopes were published to the broadcast key, one after the other,
\* and the callback of the queue bound to it was called with the first, then
\* with the second
DeliveredInOrder ==
    \E q \in DOMAIN delivered :
       /\ Len(delivered[q]) >= 2
       /\ delivered[q][1].correlation_id < delivered[q][2].correlation_id
       /\ delivered[q][1] = arrived[q][1]
       /\ delivered[q][2] = arrived[q][2]

-----------------------------------------------------------------------------
(* Replies that arrive after the caller gave up *)

\* the send_message calls that returned the timeout error
TimedOutCalls ==
    {c \in DOMAIN calls : calls[c].wait /\ calls[c].pc = "returned"
                             /\ calls[c].result = TimeoutResult}

\* the correlation ids of the blocking calls that ended with a timeout
TimedOutIds == {calls[c].correlation_id : c \in TimedOutCalls} \cup rpc.timed_out

\* the step is a blocking call giving up
GivesUp ==
    \/ \E c \in DOMAIN calls : calls[c].pc = "waiting" /\ c \in TimedOutCalls'
    \/ rpc.pc = "waiting" /\ rpc'.outcome = "TimeoutError"

\* C18 -- late replies: a call that ends with a timeout cancels nothing on
\* the remote side (the request stays in the agent's buffer or in its
\* handler, which still runs to its publish); what a call returned never changes afterwards; and
\* no call, the timed-out one or a later one, returns a reply carrying the
\* correlation id of a call that timed out.
LateReplies ==
    /\ [][GivesUp => /\ handling' = handling
                     /\ \A a \in Agents :
                           mock_messages'[AgentQueue(a)] = mock_messages[AgentQueue(a)]
                     /\ consumers' = consumers
                     /\ message_handlers' = message_handlers]_vars
    /\ [](\A a \in Agents : handling[a] # None => ENABLED ProcessMessage(a))
    /\ [][/\ \A c \in DOMAIN calls :
                calls[c].pc = "returned" =>
                   /\ calls'[c].pc = "returned"
                   /\ calls'[c].result = calls[c].result
                   /\ calls'[c].result_cid = calls[c].result_cid
          /\ (rpc.pc = "idle" /\ rpc'.count = rpc.count) =>
                /\ rpc'.outcome = rpc.outcome
                /\ rpc'.result = rpc.result]_vars
    /\ [](/\ \A c \in DOMAIN calls :
                calls[c].pc = "returned" => calls[c].result_cid \notin TimedOutIds
          /\ rpc.outcome = "return" => rpc.result_cid \notin TimedOutIds)

\* a send_message timed out, the reply to it was published afterwards and
\* reached its response_handler, the call's result is still the timeout
\* error; an RPC.call timed out, the reply to it sits in the callback queue,
\* and the next RPC.call returned the reply to its own request
LateReplyIgnored ==
    \/ \E c \in TimedOutCalls :
          /\ calls[c].event
          /\ calls[c].response_cid = calls[c].correlation_id
          /\ calls[c].response_data["status"] = "success"
    \/ /\ rpc.outcome = "return"
       /\ rpc.result_cid = rpc.own_cid
       /\ \E i \in DOMAIN CallbackBuffer :
             CallbackBuffer[i].correlation_id \in rpc.timed_out


\* C24 -- publish_message(k, env) appends env exactly once to the buffer of
\* each queue whose bindings include k and changes no other buffer; a queue
\* named k and bound to k gets one copy of env.
PublishOncePerBinding ==
    [][published'.count # published.count =>
          LET k == published'.routing_key
          IN  \A q \in DOMAIN mock_messages' :
                 mock_messages'[q] =
                    Get(mock_messages, q, <<>>)
                    \o (IF q \in BoundQueues(mock_queues, k)
                        THEN <<published'.md>> ELSE <<>>)]_vars


\* C25 -- RPC.call matches by id, not by arrival order: the message a pass
\* of its loop takes from the callback queue is the first one buffered under
\* the call's correlation_id, whatever was buffered before it; exactly that
\* entry leaves the buffer, the others keep their places and order, and the
\* value the call returns is that message.
RpcMatchById ==
    /\ [][Len(CallbackBuffer') < Len(CallbackBuffer) =>
             \E i \in DOMAIN CallbackBuffer :
                /\ CallbackBuffer[i].correlation_id = rpc.correlation_id
                /\ \A j \in 1..(i - 1) :
                      CallbackBuffer[j].correlation_id # rpc.correlation_id
                /\ CallbackBuffer' = SubSeq(CallbackBuffer, 1, i - 1)
                                     \o SubSeq(CallbackBuffer, i + 1, Len(CallbackBuffer))
                /\ rpc'.response = CallbackBuffer[i].message
                /\ rpc'.response_cid = rpc.correlation_id]_vars
    /\ [][(rpc.pc = "waiting" /\ rpc'.outcome = "return") =>
             /\ rpc'.result = rpc'.response
             /\ rpc'.result_cid = rpc.correlation_id
             /\ Len(CallbackBuffer') = Len(CallbackBuffer) - 1]_vars

\* a third party's message was buffered on the callback queue before the
\* reply; the call returned the reply and the third party's message is still
\* there, first in the buffer, ahead of the second copy of the reply
ReplyTakenPastStray ==
    /\ rpc.outcome = "return"
    /\ rpc.result_cid = rpc.own_cid
    /\ Len(CallbackBuffer) >= 2
    /\ CallbackBuffer[1].message = StrayMessage
    /\ CallbackBuffer[1].correlation_id # rpc.own_cid
    /\ \E j \in 2..Len(CallbackBuffer) :
          CallbackBuffer[j].correlation_id = rpc.own_cid


\* C26 -- one handler invocation per request: an agent's _process_message is
\* not called with an envelope whose correlation_id is that of the request
\* its handler has already served, so each stage's handler runs once per
\* request of the orchestrator.
HandlerOncePerRequest ==
    \A a \in Agents :
       (/\ handling[a] # None
        /\ last_outcome[a] # None
        /\ last_outcome[a].kind \in {"return", "raise"}) =>
          handling[a].correlation_id # last_outcome[a].md.correlation_id


\* C29 -- sub-query generation never yields an empty list: once Step 3 is
\* over sub_queries holds at least one query, so an answer_query request
\* precedes the generate_report request, whose queries and answers are not
\* empty.
SubQueriesNonEmpty ==
    /\ orch.pc \in {"answer_query", "validate_answer", "generate_report"} =>
          orch.sub_queries # <<>>
    /\ \A c \in DOMAIN calls :
          calls[c].type = "generate_report" =>
             /\ calls[c].data["queries"] # <<>>
             /\ calls[c].data["answers"] # <<>>
             /\ \E k \in 1..(c - 1) : calls[k].type = "answer_query"


\* what answer_query returned for the i-th sub-query, as Step 4 reads it:
\* the placeholder when answer_query or validate_answer did not succeed,
\* else the corrected answer of the validation, or the answer as it was
OutcomeOf(i) ==
    LET rag_result == orch.trace[AnswerAt(i)].result
        validation_result == orch.trace[AnswerAt(i) + 1].result
        validation == Get(validation_result, "validation_result", <<>>)
    IN  IF Unsuccessful(rag_result) \/ Unsuccessful(validation_result)
        THEN "No answer available."
        ELSE Get(validation, "corrected_answer", Get(rag_result, "answer", ""))

\* C28 -- answers are aligned with sub_queries: in a status "success" result
\* of run_research_pipeline answers is as long as sub_queries, answers[i] is
\* what answer_query gave for sub_queries[i] (the validated answer or the
\* placeholder), and the generate_report request carried these two lists.
AnswersAligned ==
    (orch.pc = "done" /\ orch.result["status"] = "success") =>
       LET result == orch.result
           report == calls[Len(calls)]
       IN  /\ Len(result["answers"]) = Len(result["sub_queries"])
           /\ \A i \in DOMAIN result["sub_queries"] :
                 /\ orch.trace[AnswerAt(i)].query = result["sub_queries"][i]
                 /\ Validated(i) => orch.trace[AnswerAt(i) + 1].query = result["sub_queries"][i]
                 /\ result["answers"][i] = OutcomeOf(i)
           /\ report.type = "generate_report"
           /\ report.data["queries"] = result["sub_queries"]
           /\ report.data["answers"] = result["answers"]

\* a successful run over two sub-queries of which the first timed out in
\* answer_query and the second was answered and validated
PlaceholderThenAnswer ==
    /\ orch.pc = "done"
    /\ orch.result["status"] = "success"
    /\ orch.result["sub_queries"] = <<"Q1", "Q2">>
    /\ orch.trace[AnswerAt(1)].result = TimeoutResult
    /\ Validated(2)
    /\ ~Unsuccessful(orch.trace[AnswerAt(2) + 1].result)
    /\ orch.result["answers"][1] = "No answer available."
    /\ orch.result["answers"][2] # "No answer available."


\* the error messages of run_research_pipeline
PipelineErrors ==
    {"Data mining failed", "Knowledge graph creation failed", "Report generation failed"}

\* C23 -- run_research_pipeline always returns a structured result: a run
\* that has started can always take its next step, whatever the stages
\* returned (a success response, an error response, the timeout error) and
\* whatever the sub-query generation gave, and what it returns has status
\* "success" or "error", an error result carrying its error message.
StructuredResult ==
    /\ [](orch.pc \notin {"idle", "done"} => ENABLED PipelineNext)
    /\ [](orch.pc = "done" =>
             /\ "status" \in DOMAIN orch.result
             /\ orch.result["status"] \in {"success", "error"}
             /\ orch.result["status"] = "error" =>
                   /\ "error" \in DOMAIN orch.result
                   /\ orch.result["error"] \in PipelineErrors)

\* the knowledge graph stage timed out and the run returned its error result
GraphTimeoutReported ==
    /\ orch.pc = "done"
    /\ orch.result["status"] = "error"
    /\ orch.result["error"] = "Knowledge graph creation failed"
    /\ orch.result["details"] = TimeoutResult
    /\ Len(calls) = 2

-----------------------------------------------------------------------------
(* The construction of an agent, statement by statement, on a broker that
   clients already publish to *)

\* number of envelopes published to the agent's queue
MaxConstructCalls == 2

\* the agent under construction
Constructing == "data_miner"

\* the register_handler calls of BaseAgent.__init__ and of
\* DataMinerAgent.__init__, in order
RegistrationOrder == <<"ping", "stop", "mine_data", "scrape_url", "get_stats">>

\* the message types published to the agent
ConstructInputs == {"ping", "mine_data"}

\* dict with no entry
NoHandlers == [t \in {} |-> ""]

\* self.message_broker.create_queue(self.queue_name, [self.queue_name])
ConstructCreateQueue ==
    /\ AgentQueue(Constructing) \notin DOMAIN mock_queues
    /\ mock_queues' = CreateQueueBindings(mock_queues, AgentQueue(Constructing),
                                          {AgentQueue(Constructing)})
    /\ mock_messages' = CreateQueueMessages(mock_messages, AgentQueue(Constructing))
    /\ UNCHANGED <<consumers, message_handlers, handling, last_outcome, calls, rpc,
                   uuid_count, budget, published, popped, orch, others>>

\* self.consumer_thread = start_consumer_thread(self.queue_name,
\* self._process_message)
ConstructStartConsumer ==
    /\ AgentQueue(Constructing) \in DOMAIN mock_queues
    /\ ~Running(AgentQueue(Constructing))
    /\ consumers' = consumers
          \cup {Consumer(AgentQueue(Constructing), AgentCallback(Constructing))}
    /\ UNCHANGED <<mock_queues, mock_messages, message_handlers, handling, last_outcome,
                   calls, rpc, uuid_count, budget, published, popped, orch, others>>

\* self.message_handlers = {}
ConstructRegistry ==
    /\ Running(AgentQueue(Constructing))
    /\ message_handlers[Constructing] = None
    /\ message_handlers' = [message_handlers EXCEPT ![Constructing] = NoHandlers]
    /\ UNCHANGED <<mock_queues, mock_messages, consumers, handling, last_outcome,
                   calls, rpc, uuid_count, budget, published, popped, orch, others>>

\* the next register_handler call of the constructors
RegisterNext ==
    /\ message_handlers[Constructing] # None
    /\ LET done == Cardinality(DOMAIN message_handlers[Constructing])
       IN  /\ done < Len(RegistrationOrder)
           /\ message_handlers' =
                 [message_handlers EXCEPT ![Constructing] =
                     RegisterHandler(@, RegistrationOrder[done + 1],
                                     ClassHandler(RegistrationOrder[done + 1]))]
    /\ UNCHANGED <<mock_queues, mock_messages, consumers, handling, last_outcome,
                   calls, rpc, uuid_count, budget, published, popped, orch, others>>

\* a client publishes a request to the agent's routing key, before, during
\* or after the construction
ConstructPublish ==
    /\ budget > 0
    /\ budget' = budget - 1
    /\ \E message_type \in ConstructInputs :
          LET message == Request("client", message_type, [query |-> "q"])
          IN  /\ mock_messages' = PublishMessage(mock_messages, mock_queues,
                                                 AgentQueue(Constructing), message,
                                                 uuid_count + 1)
              /\ published' = LogPublish(published, AgentQueue(Constructing), message,
                                         uuid_count + 1)
    /\ uuid_count' = uuid_count + 1
    /\ UNCHANGED <<mock_queues, consumers, message_handlers, handling, last_outcome,
                   calls, rpc, popped, orch, others>>

\* a new mock broker and an agent object whose __init__ is about to run
ConstructInit ==
    /\ mock_queues = <<>>
    /\ mock_messages = <<>>
    /\ consumers = {}
    /\ message_handlers = [a \in {Constructing} |-> None]
    /\ handling = [a \in {Constructing} |-> None]
    /\ last_outcome = [a \in {Constructing} |-> None]
    /\ calls = <<>>
    /\ rpc = None
    /\ uuid_count = 0
    /\ budget = MaxConstructCalls
    /\ published = [count |-> 0, routing_key |-> <<>>, md |-> None]
    /\ popped = <<>>
    /\ orch = [pc |-> "off"]
    /\ broker = MockBroker
    /\ stopped = [a \in {Constructing} |-> Never]
    /\ rpc_peer = None
    /\ arrived = <<>>
    /\ delivered = <<>>

ConstructNext ==
    \/ ConstructCreateQueue
    \/ ConstructStartConsumer
    \/ ConstructRegistry
    \/ RegisterNext
    \/ ConstructPublish
    \/ AgentDequeue(Constructing)
    \/ ProcessMessage(Constructing)

ConstructSpec == ConstructInit /\ [][ConstructNext]_vars

\* C27 -- the registry is there when the consumer loop dispatches: whenever
\* _process_message is called on an agent, message_handlers exists and holds
\* the ping and stop handlers and the handlers of the agent's class, so no
\* envelope is lost for lack of a registry or of a handler.
RegistryReady ==
    /\ \A a \in DOMAIN handling :
          handling[a] # None =>
             /\ message_handlers[a] # None
             /\ DOMAIN RegisteredHandlers(a) \subseteq DOMAIN message_handlers[a]
    /\ \A a \in DOMAIN last_outcome :
          (last_outcome[a] # None /\ last_outcome[a].kind \in {"AttributeError", "unknown"}) =>
             Get(last_outcome[a].md.message, "type", "") \notin DOMAIN RegisteredHandlers(a)

-----------------------------------------------------------------------------
(* Consumption from the transport: wrapped_callback of _consumer_thread *)

\* number of messages the transport delivers
MaxTransportCalls == 3

\* the agents consuming from the transport
TransportAgents == {"data_miner"}

\* the bodies the transport delivers to an agent's queue: requests as JSON
\* objects (handled by a handler that returns or raises, or of a type
\* nobody registered, with or without reply_to), a body that is no JSON, and
\* a JSON array
TransportBodies(a) ==
    {[json |-> "object", message |-> Request("client", t, [query |-> "q"])] :
        t \in {"ping", "mine_data", "bogus"}}
    \cup {[json |-> "object",
           message |-> WithReplyTo(Request("client", "mine_data", [query |-> "q"]),
                                   ResponseQueue(0))]}
    \cup {[json |-> "invalid"], [json |-> "array"]}

\* callback(message, properties.correlation_id) with _process_message as the
\* callback: how the handler ended, what was published, and whether the call
\* raised (message.get on a value that is no dict does; an exception of the
\* handler is caught inside _process_message)
ProcessMessageRuns(a, body) ==
    IF body.json = "array"
    THEN {[handler |-> "none", out |-> <<>>, raised |-> TRUE]}
    ELSE LET message == body.message
             message_type == Get(message, "type", "")
         IN  IF message_type \in DOMAIN message_handlers[a]
             THEN {[handler |-> outcome.kind, out |-> Responses(a, message, outcome),
                    raised |-> FALSE] :
                      outcome \in HandlerOutcomes(message_handlers[a][message_type],
                                                  a, message_type, message)}
             ELSE {[handler |-> "unknown", out |-> UnknownTypeResponses(a, message),
                    raised |-> FALSE]}

\* the try block of wrapped_callback up to the settlement: json.loads, then
\* the callback
WrappedCallbackRuns(a, body) ==
    IF body.json = "invalid"
    THEN {[handler |-> "none", out |-> <<>>, raised |-> TRUE]}
    ELSE ProcessMessageRuns(a, body)

\* _connect: a new connection and channel
Connect(b) == [b EXCEPT !.connection = "open"]

\* publish_message on the transport: the connection is opened again when it
\* is closed, then basic_publish is called, which raises on a connection
\* that another thread's close() closed in between (`interrupted`)
BasicPublish(b, interrupted) ==
    LET checked == IF b.connection # "open" THEN Connect(b) ELSE b
        at_publish == IF interrupted THEN Close(checked) ELSE checked
    IN  [broker |-> at_publish, ok |-> at_publish.connection = "open"]

\* what becomes of one run of the callback once its publish is made on the
\* shared connection: a publish that raises inside the try block of
\* _process_message is followed by the publish of the error response in the
\* except block; one that raises inside the except block leaves
\* _process_message as an exception
TransportRun(a, message, run, interrupted) ==
    IF run.out = <<>>
    THEN [broker |-> broker, raised |-> run.raised, sent |-> <<>>]
    ELSE LET first == BasicPublish(broker, interrupted)
             second == BasicPublish(first.broker, FALSE)
         IN  IF first.ok
             THEN [broker |-> first.broker, raised |-> FALSE, sent |-> run.out]
             ELSE IF run.handler = "return"
                  THEN [broker |-> second.broker, raised |-> ~second.ok,
                        sent |-> IF second.ok
                                 THEN <<[to |-> run.out[1].to,
                                         message |-> ErrorResponse(a, message["type"],
                                                                   "ConnectionWrongStateError")]>>
                                 ELSE <<>>]
                  ELSE [broker |-> first.broker, raised |-> TRUE, sent |-> <<>>]

\* the settlement of wrapped_callback: basic_ack at the end of the try
\* block, basic_nack(requeue=False) in the except block
Settle(raised) ==
    IF raised
    THEN <<[op |-> "basic_nack", requeue |-> FALSE]>>
    ELSE <<[op |-> "basic_ack"]>>

\* one call of wrapped_callback for `body`, the callback running as `run`
WrappedCallback(a, body, run, interrupted) ==
    LET correlation_id == uuid_count + 1
        tag == Len(Get(delivered, AgentQueue(a), <<>>)) + 1
        end == TransportRun(a, Get(body, "message", <<>>), run, interrupted)
    IN  /\ delivered' = Deliver(delivered, AgentQueue(a),
                           [delivery_tag |-> tag, body |-> body,
                            correlation_id |-> correlation_id,
                            handler |-> run.handler, raised |-> end.raised,
                            sent |-> end.sent,
                            settled |-> Settle(end.raised)])
        /\ broker' = end.broker
        /\ published' = IF end.sent = <<>>
                        THEN published
                        ELSE LogPublish(published, end.sent[1].to,
                                        end.sent[1].message, correlation_id)
        /\ last_outcome' =
              IF body.json = "object"
              THEN [last_outcome EXCEPT ![a] =
                      Dispatched(MessageData(body.message, correlation_id),
                                 run.handler,
                                 Sent(end.sent, correlation_id, mock_queues))]
              ELSE last_outcome
        /\ uuid_count' = uuid_count + 1
        /\ UNCHANGED <<mock_queues, mock_messages, consumers, message_handlers,
                       handling, calls, rpc, popped, orch, rpc_peer, arrived>>

\* the transport delivers a message to the consumer of the agent's queue:
\* one call of wrapped_callback
TransportDeliver(a) ==
    /\ budget > 0
    /\ budget' = budget - 1
    /\ ~broker.use_mock
    /\ \E body \in TransportBodies(a) :
          \E run \in WrappedCallbackRuns(a, body) :
             WrappedCallback(a, body, run, FALSE)
    /\ UNCHANGED stopped

TransportInit ==
    /\ ConstructedOnTransport(TransportAgents, ClassRegistry(TransportAgents))
    /\ budget = MaxTransportCalls
    /\ orch = [pc |-> "off"]

TransportNext == \E a \in TransportAgents : TransportDeliver(a)

TransportSpec == TransportInit /\ [][TransportNext]_vars

\* C21 -- transport-backed consumption: every delivered message is settled
\* exactly once, with basic_ack when the callback returned and with
\* basic_nack(requeue=False) when the callback or the decoding raised; the
\* loop goes on after a callback that raised; and a message whose handler
\* raised inside the agent is negatively acknowledged.
SettledOnce ==
    /\ [](\A q \in DOMAIN delivered :
             \A i \in DOMAIN delivered[q] :
                LET d == delivered[q][i]
                IN  /\ Len(d.settled) = 1
                    /\ d.raised => d.settled[1] = [op |-> "basic_nack", requeue |-> FALSE]
                    /\ ~d.raised => d.settled[1] = [op |-> "basic_ack"]
                    /\ d.handler = "raise" => d.settled[1].op = "basic_nack")
    /\ [](\A a \in TransportAgents : budget > 0 => ENABLED TransportDeliver(a))

-----------------------------------------------------------------------------
(* BaseAgent.broadcast_message, with agents whose queues are bound to the
   broadcast key as well *)

\* number of broadcast_message calls
MaxBroadcasts == 2

\* the message types that are broadcast
BroadcastInputs == {"ping", "mine_data"}

\* a broadcast that asks for replies on the sender's queue
BroadcastEnvelopeWithReply(agent_id, message_type, data) ==
    [type |-> message_type, data |-> data, agent_id |-> agent_id,
     reply_to |-> AgentQueue(agent_id)]

\* the message broadcast_message builds
BroadcastEnvelope(agent_id, message_type, data) ==
    [type |-> message_type, data |-> data, agent_id |-> agent_id]

\* create_queue(queue_name, [queue_name, "broadcast"]) for the queue of an
\* agent: the queue is rebound to its own name and to the broadcast key
BindBroadcast(a) ==
    /\ BroadcastKey \notin mock_queues[AgentQueue(a)]
    /\ mock_queues' = CreateQueueBindings(mock_queues, AgentQueue(a),
                                          {AgentQueue(a), BroadcastKey})
    /\ mock_messages' = CreateQueueMessages(mock_messages, AgentQueue(a))
    /\ UNCHANGED <<consumers, message_handlers, handling, last_outcome, calls, rpc,
                   uuid_count, budget, published, popped, orch, others>>

\* agent a calls broadcast_message(message_type, data)
BroadcastMessage(a) ==
    /\ budget > 0
    /\ budget' = budget - 1
    /\ \E message_type \in BroadcastInputs :
          LET message == BroadcastEnvelope(a, message_type, [query |-> "q"])
              correlation_id == uuid_count + 1
          IN  /\ mock_messages' = PublishMessage(mock_messages, mock_queues, BroadcastKey,
                                                 message, correlation_id)
              /\ published' = LogPublish(published, BroadcastKey, message, correlation_id)
    /\ uuid_count' = uuid_count + 1
    /\ UNCHANGED <<mock_queues, consumers, message_handlers, handling, last_outcome,
                   calls, rpc, popped, orch, others>>

BroadcastInit ==
    /\ Constructed(Agents, ClassRegistry(Agents))
    /\ budget = MaxBroadcasts
    /\ orch = [pc |-> "off"]

BroadcastNext ==
    \/ \E a \in Agents : BindBroadcast(a)
    \/ \E a \in Agents : BroadcastMessage(a)
    \/ \E a \in Agents : AgentDequeue(a)
    \/ \E a \in Agents : ProcessMessage(a)

BroadcastSpec == BroadcastInit /\ [][BroadcastNext]_vars

\* C22 -- broadcast: broadcast_message makes one publish_message call, under
\* the routing key "broadcast", of an envelope without reply_to; the queue of
\* every agent bound to that key gets the envelope and the agent dispatches
\* it to its handler for the type; and nothing is published in response.
BroadcastDelivered ==
    /\ [][published'.count # published.count =>
             /\ published'.count = published.count + 1
             /\ published'.routing_key = BroadcastKey
             /\ "reply_to" \notin DOMAIN published'.md.message
             /\ \A a \in Agents :
                   mock_messages'[AgentQueue(a)] =
                      mock_messages[AgentQueue(a)]
                      \o (IF BroadcastKey \in mock_queues[AgentQueue(a)]
                          THEN <<published'.md>> ELSE <<>>)]_vars
    /\ [](published.count = MaxBroadcasts - budget)
    /\ [](\A a \in Agents :
             /\ (HasMessage(mock_messages, AgentQueue(a)) /\ handling[a] = None) =>
                   ENABLED AgentDequeue(a)
             /\ last_outcome[a] # None =>
                   /\ last_outcome[a].sent = <<>>
                   /\ last_outcome[a].md.message["type"] \in DOMAIN message_handlers[a] =>
                         last_outcome[a].kind \in {"return", "raise"})

\* both agents are bound to the broadcast key, one of them broadcast a ping,
\* and each of the two dispatched it to its ping handler
BroadcastHandledByAll ==
    /\ published.count >= 1
    /\ \A a \in Agents :
          /\ BroadcastKey \in mock_queues[AgentQueue(a)]
          /\ last_outcome[a] # None
          /\ last_outcome[a].md.message["type"] = "ping"
          /\ last_outcome[a].kind = "return"
          /\ last_outcome[a].md.correlation_id = published.md.correlation_id


-----------------------------------------------------------------------------
(* One agent is stopped while the others go on: BaseAgent.stop,
   MessageBroker.close, publish_message on the shared connection *)

\* number of send_message calls and transport deliveries around the stop
MaxStopCalls == 2

\* stop() is called on one agent, by the thread that owns it or by its own
\* stop handler
StopAgent(a) ==
    /\ stopped[a] = Never
    /\ Stop(a)
    /\ UNCHANGED <<mock_queues, mock_messages, consumers, message_handlers, handling,
                   last_outcome, calls, rpc, uuid_count, budget, published, popped,
                   orch, rpc_peer, recorded>>

\* the main thread pings an agent through that agent's own send_message, as
\* the stage methods of the Orchestrator do
StopSend ==
    /\ MainIdle
    /\ broker.use_mock
    /\ budget > 0
    /\ budget' = budget - 1
    /\ \E target \in Agents :
          SendAndWait(target, target, "ping", <<>>, DefaultTimeout)
    /\ UNCHANGED <<message_handlers, handling, last_outcome, rpc, popped, orch, others>>

\* stop() of agent a runs in one thread while the consumer thread of agent b
\* is inside publish_message: close() lands between the is_closed test and
\* basic_publish
StopDuringPublish(a, b) ==
    /\ a # b
    /\ stopped[a] = Never
    /\ budget > 0
    /\ budget' = budget - 1
    /\ ~broker.use_mock
    /\ \E body \in TransportBodies(b) :
          \E run \in WrappedCallbackRuns(b, body) :
             /\ run.out # <<>>
             /\ WrappedCallback(b, body, run, TRUE)
    /\ stopped' = [stopped EXCEPT ![a] = uuid_count]

StopInit ==
    /\ \/ Constructed(Agents, ClassRegistry(Agents))
       \/ ConstructedOnTransport(Agents, ClassRegistry(Agents))
    /\ budget = MaxStopCalls
    /\ orch = OrchRunning

StopNext ==
    \/ StopSend
    \/ \E a \in Agents : StopAgent(a)
    \/ \E a, b \in Agents : StopDuringPublish(a, b)
    \/ \E a \in Agents : TransportDeliver(a)
    \/ \E c \in DOMAIN calls : ClientReturn(c)
    \/ \E c \in DOMAIN calls : ClientTimeout(c)
    \/ \E c \in DOMAIN calls : ResponseDequeue(c)
    \/ \E a \in Agents : AgentDequeue(a)
    \/ \E a \in Agents : ProcessMessage(a)
    \/ Tick

StopSpec == StopInit /\ [][StopNext]_vars

\* the deliveries made to an agent's queue on the transport that ask for a
\* reply: a request with reply_to whose type the agent registered
ReplyOwed(b) ==
    {d \in {Get(delivered, AgentQueue(b), <<>>)[i] :
                i \in DOMAIN Get(delivered, AgentQueue(b), <<>>)} :
        /\ d.body.json = "object"
        /\ "reply_to" \in DOMAIN d.body.message
        /\ Get(d.body.message, "type", "") \in DOMAIN message_handlers[b]}

\* C30 -- stopping one agent leaves the other agents on the same broker
\* unaffected: a call of stop() changes no queue, binding or pending
\* envelope; an agent that was not stopped still takes the envelope at the
\* head of its queue; and every request with a reply address delivered to an
\* agent that was not stopped gets its response published, so that the RPC
\* call resolves.
StopLeavesOthers ==
    /\ [][stopped' # stopped =>
             /\ mock_queues' = mock_queues
             /\ mock_messages' = mock_messages
             /\ consumers' = consumers
             /\ message_handlers' = message_handlers]_vars
    /\ [](\A b \in Agents :
             (/\ stopped[b] = Never
              /\ broker.use_mock
              /\ handling[b] = None
              /\ Get(mock_messages, AgentQueue(b), <<>>) # <<>>)
                => ENABLED AgentDequeue(b))
    /\ [](\A b \in Agents :
             stopped[b] = Never =>
                \A d \in ReplyOwed(b) :
                   /\ d.sent # <<>>
                   /\ d.sent[1].to = d.body.message["reply_to"])

=============================================================================
